---- MODULE Spec2Model ----
(***************************************************************************)
(* ShoppingListAI: the item intelligence layer (categorizer, category      *)
(* registry, suggestion engine, recipe parser), the store of the local     *)
(* provider with localStorage, and the Firestore provider with its         *)
(* documents, listeners and asynchronous actions, as state machines over   *)
(* bounded inputs.                                                         *)
(*                                                                         *)
(* A JavaScript string is modelled as a sequence of characters, each       *)
(* character a one-character TLA+ string, so that toLowerCase, trim,       *)
(* split and includes are computed character by character as the code     *)
(* computes them.                                                          *)
(***************************************************************************)
EXTENDS Integers, Sequences, FiniteSets, TLC

VARIABLES
  catPc,             \* categorizer: "idle", or the function that has returned
  itemName,          \* categorizeItem: argument itemName
  customCategories,  \* categorizeItem / getAllCategoryKeys: argument customCategories
  catResult,         \* categorizeItem: returned value
  keyOrder,          \* getAllCategoryKeys: returned array
  sugPc,             \* suggestion engine: "idle" or "getSuggestions"
  history,           \* getSuggestions: argument history (names of the entries)
  currentItems,      \* getSuggestions: argument currentItems (names of the items)
  maxSuggestions,    \* getSuggestions: argument maxSuggestions
  suggestions,       \* getSuggestions: returned array
  recPc,             \* recipe functions: "idle", or the function that has returned
  recipeText,        \* parseRecipeText: argument recipeText
  template,          \* recipeTemplateToItems: argument template
  recipeItems,       \* parseRecipeText / recipeTemplateToItems: returned array
  uuidCount,         \* uuidv4: the identifiers generated so far
  earlierIds,        \* the identifiers of the items of earlier calls
  recCalls,          \* the calls of the recipe functions so far
  state,             \* the store: lists, activeListId, history
  provider,          \* the ShoppingListProvider mounted: "local", "firestore" or none
  storage,           \* localStorage: the saved lists and the saved history
  appended,          \* the ADD_HISTORY actions dispatched on their own so far
  db,                \* Firestore: the documents of the user's collections
  view,              \* the state hooks (and the ref) of the Firestore provider
  tasks,             \* the asynchronous actions awaiting a promise
  clock              \* Date.now()

vars ==
  <<catPc, itemName, customCategories, catResult, keyOrder,
    sugPc, history, currentItems, maxSuggestions, suggestions,
    recPc, recipeText, template, recipeItems, uuidCount, earlierIds, recCalls,
    state, provider, storage, appended, db, view, tasks, clock>>

catVars ==
  <<catPc, itemName, customCategories, catResult, keyOrder>>

sugVars ==
  <<sugPc, history, currentItems, maxSuggestions, suggestions>>

recVars ==
  <<recPc, recipeText, template, recipeItems, uuidCount, earlierIds, recCalls>>

fireVars ==
  <<db, view, tasks, clock>>

shopVars ==
  <<state, provider, storage, appended, db, view, tasks, clock>>

(***************************************************************************)
(* JavaScript string primitives                                            *)
(***************************************************************************)

\* The characters String.prototype.trim and the regular expression \s treat
\* as white space (the two the inputs use).
WhiteSpace ==
  {" ", "\t"}

UpperCaseLetters ==
  <<"A","B","C","D","E","F","G","H","I","J","K","L","M",
    "N","O","P","Q","R","S","T","U","V","W","X","Y","Z">>

LowerCaseLetters ==
  <<"a","b","c","d","e","f","g","h","i","j","k","l","m",
    "n","o","p","q","r","s","t","u","v","w","x","y","z">>

UpperCaseSet ==
  {UpperCaseLetters[i] : i \in DOMAIN UpperCaseLetters}

LowerCaseSet ==
  {LowerCaseLetters[i] : i \in DOMAIN LowerCaseLetters}

LowerOf ==
  [c \in UpperCaseSet |->
     LowerCaseLetters[CHOOSE i \in DOMAIN UpperCaseLetters : UpperCaseLetters[i] = c]]

UpperOf ==
  [c \in LowerCaseSet |->
     UpperCaseLetters[CHOOSE i \in DOMAIN LowerCaseLetters : LowerCaseLetters[i] = c]]

LowerChar(c) ==
  IF c \in UpperCaseSet THEN LowerOf[c] ELSE c

UpperChar(c) ==
  IF c \in LowerCaseSet THEN UpperOf[c] ELSE c

\* String.prototype.toLowerCase
ToLowerCase(s) ==
  [i \in 1..Len(s) |-> LowerChar(s[i])]

\* String.prototype.toUpperCase
ToUpperCase(s) ==
  [i \in 1..Len(s) |-> UpperChar(s[i])]

RECURSIVE FirstInk(_, _)
FirstInk(s, i) ==
  IF i > Len(s) \/ s[i] \notin WhiteSpace THEN i ELSE FirstInk(s, i + 1)

RECURSIVE LastInk(_, _)
LastInk(s, i) ==
  IF i < 1 \/ s[i] \notin WhiteSpace THEN i ELSE LastInk(s, i - 1)

\* String.prototype.trim: drops the leading and the trailing white space.
Trim(s) ==
  SubSeq(s, FirstInk(s, 1), LastInk(s, Len(s)))

\* String.prototype.includes
Includes(s, sub) ==
  \/ Len(sub) = 0
  \/ \E i \in 1..(Len(s) - Len(sub) + 1) :
       s[i] = sub[1] /\ SubSeq(s, i, i + Len(sub) - 1) = sub

RECURSIVE SplitFrom(_, _, _)
SplitFrom(s, i, word) ==
  IF i > Len(s) THEN <<word>>
  ELSE IF s[i] \in WhiteSpace
    THEN IF i > 1 /\ s[i - 1] \in WhiteSpace
           THEN SplitFrom(s, i + 1, word)
           ELSE <<word>> \o SplitFrom(s, i + 1, <<>>)
    ELSE SplitFrom(s, i + 1, Append(word, s[i]))

\* String.prototype.split(/\s+/): the pieces between maximal runs of white
\* space; the empty string splits into one empty piece.
SplitWhiteSpace(s) ==
  SplitFrom(s, 1, <<>>)

\* The least element of a non-empty set of integers.
Least(S) ==
  CHOOSE i \in S : \A j \in S : i <= j

(***************************************************************************)
(* Category registry                                                       *)
(***************************************************************************)

\* Object.values(CATEGORIES), in declaration order.
CATEGORIES ==
  <<"produce", "dairy", "meat", "bakery", "frozen", "pantry", "beverages",
    "snacks", "condiments", "household", "personal_care", "other">>

CATEGORIES_OTHER ==
  "other"

\* The own properties of the KEYWORD_MAP object literal, in declaration order.
KEYWORD_MAP ==
  <<
     [kw |-> <<"a","p","p","l","e">>, cat |-> "produce"],
     [kw |-> <<"a","p","p","l","e","s">>, cat |-> "produce"],
     [kw |-> <<"b","a","n","a","n","a">>, cat |-> "produce"],
     [kw |-> <<"b","a","n","a","n","a","s">>, cat |-> "produce"],
     [kw |-> <<"l","e","t","t","u","c","e">>, cat |-> "produce"],
     [kw |-> <<"t","o","m","a","t","o">>, cat |-> "produce"],
     [kw |-> <<"t","o","m","a","t","o","e","s">>, cat |-> "produce"],
     [kw |-> <<"o","n","i","o","n">>, cat |-> "produce"],
     [kw |-> <<"o","n","i","o","n","s">>, cat |-> "produce"],
     [kw |-> <<"g","a","r","l","i","c">>, cat |-> "produce"],
     [kw |-> <<"p","o","t","a","t","o">>, cat |-> "produce"],
     [kw |-> <<"p","o","t","a","t","o","e","s">>, cat |-> "produce"],
     [kw |-> <<"c","a","r","r","o","t">>, cat |-> "produce"],
     [kw |-> <<"c","a","r","r","o","t","s">>, cat |-> "produce"],
     [kw |-> <<"b","r","o","c","c","o","l","i">>, cat |-> "produce"],
     [kw |-> <<"s","p","i","n","a","c","h">>, cat |-> "produce"],
     [kw |-> <<"a","v","o","c","a","d","o">>, cat |-> "produce"],
     [kw |-> <<"a","v","o","c","a","d","o","s">>, cat |-> "produce"],
     [kw |-> <<"c","u","c","u","m","b","e","r">>, cat |-> "produce"],
     [kw |-> <<"p","e","p","p","e","r","s">>, cat |-> "produce"],
     [kw |-> <<"p","e","p","p","e","r">>, cat |-> "produce"],
     [kw |-> <<"c","e","l","e","r","y">>, cat |-> "produce"],
     [kw |-> <<"m","u","s","h","r","o","o","m">>, cat |-> "produce"],
     [kw |-> <<"m","u","s","h","r","o","o","m","s">>, cat |-> "produce"],
     [kw |-> <<"l","e","m","o","n">>, cat |-> "produce"],
     [kw |-> <<"l","e","m","o","n","s">>, cat |-> "produce"],
     [kw |-> <<"l","i","m","e">>, cat |-> "produce"],
     [kw |-> <<"l","i","m","e","s">>, cat |-> "produce"],
     [kw |-> <<"o","r","a","n","g","e">>, cat |-> "produce"],
     [kw |-> <<"o","r","a","n","g","e","s">>, cat |-> "produce"],
     [kw |-> <<"b","e","r","r","i","e","s">>, cat |-> "produce"],
     [kw |-> <<"s","t","r","a","w","b","e","r","r","i","e","s">>, cat |-> "produce"],
     [kw |-> <<"b","l","u","e","b","e","r","r","i","e","s">>, cat |-> "produce"],
     [kw |-> <<"g","r","a","p","e","s">>, cat |-> "produce"],
     [kw |-> <<"k","a","l","e">>, cat |-> "produce"],
     [kw |-> <<"z","u","c","c","h","i","n","i">>, cat |-> "produce"],
     [kw |-> <<"c","o","r","n">>, cat |-> "produce"],
     [kw |-> <<"g","i","n","g","e","r">>, cat |-> "produce"],
     [kw |-> <<"c","i","l","a","n","t","r","o">>, cat |-> "produce"],
     [kw |-> <<"p","a","r","s","l","e","y">>, cat |-> "produce"],
     [kw |-> <<"b","a","s","i","l">>, cat |-> "produce"],
     [kw |-> <<"m","i","n","t">>, cat |-> "produce"],
     [kw |-> <<"j","a","l","a","p","e","U+00C3","U+00B1","o">>, cat |-> "produce"],
     [kw |-> <<"j","a","l","a","p","e","n","o">>, cat |-> "produce"],
     [kw |-> <<"m","i","l","k">>, cat |-> "dairy"],
     [kw |-> <<"c","h","e","e","s","e">>, cat |-> "dairy"],
     [kw |-> <<"y","o","g","u","r","t">>, cat |-> "dairy"],
     [kw |-> <<"b","u","t","t","e","r">>, cat |-> "dairy"],
     [kw |-> <<"c","r","e","a","m">>, cat |-> "dairy"],
     [kw |-> <<"e","g","g","s">>, cat |-> "dairy"],
     [kw |-> <<"e","g","g">>, cat |-> "dairy"],
     [kw |-> <<"s","o","u","r"," ","c","r","e","a","m">>, cat |-> "dairy"],
     [kw |-> <<"c","r","e","a","m"," ","c","h","e","e","s","e">>, cat |-> "dairy"],
     [kw |-> <<"c","o","t","t","a","g","e"," ","c","h","e","e","s","e">>, cat |-> "dairy"],
     [kw |-> <<"m","o","z","z","a","r","e","l","l","a">>, cat |-> "dairy"],
     [kw |-> <<"p","a","r","m","e","s","a","n">>, cat |-> "dairy"],
     [kw |-> <<"c","h","e","d","d","a","r">>, cat |-> "dairy"],
     [kw |-> <<"c","h","i","c","k","e","n">>, cat |-> "meat"],
     [kw |-> <<"b","e","e","f">>, cat |-> "meat"],
     [kw |-> <<"p","o","r","k">>, cat |-> "meat"],
     [kw |-> <<"s","t","e","a","k">>, cat |-> "meat"],
     [kw |-> <<"s","a","l","m","o","n">>, cat |-> "meat"],
     [kw |-> <<"s","h","r","i","m","p">>, cat |-> "meat"],
     [kw |-> <<"t","u","r","k","e","y">>, cat |-> "meat"],
     [kw |-> <<"b","a","c","o","n">>, cat |-> "meat"],
     [kw |-> <<"s","a","u","s","a","g","e">>, cat |-> "meat"],
     [kw |-> <<"g","r","o","u","n","d"," ","b","e","e","f">>, cat |-> "meat"],
     [kw |-> <<"g","r","o","u","n","d"," ","t","u","r","k","e","y">>, cat |-> "meat"],
     [kw |-> <<"f","i","s","h">>, cat |-> "meat"],
     [kw |-> <<"t","u","n","a">>, cat |-> "meat"],
     [kw |-> <<"l","a","m","b">>, cat |-> "meat"],
     [kw |-> <<"h","a","m">>, cat |-> "meat"],
     [kw |-> <<"b","r","e","a","d">>, cat |-> "bakery"],
     [kw |-> <<"b","a","g","e","l">>, cat |-> "bakery"],
     [kw |-> <<"b","a","g","e","l","s">>, cat |-> "bakery"],
     [kw |-> <<"t","o","r","t","i","l","l","a">>, cat |-> "bakery"],
     [kw |-> <<"t","o","r","t","i","l","l","a","s">>, cat |-> "bakery"],
     [kw |-> <<"r","o","l","l","s">>, cat |-> "bakery"],
     [kw |-> <<"b","u","n","s">>, cat |-> "bakery"],
     [kw |-> <<"c","r","o","i","s","s","a","n","t">>, cat |-> "bakery"],
     [kw |-> <<"m","u","f","f","i","n">>, cat |-> "bakery"],
     [kw |-> <<"m","u","f","f","i","n","s">>, cat |-> "bakery"],
     [kw |-> <<"p","i","t","a">>, cat |-> "bakery"],
     [kw |-> <<"i","c","e"," ","c","r","e","a","m">>, cat |-> "frozen"],
     [kw |-> <<"f","r","o","z","e","n"," ","p","i","z","z","a">>, cat |-> "frozen"],
     [kw |-> <<"f","r","o","z","e","n"," ","v","e","g","e","t","a","b","l","e","s">>, cat |-> "frozen"],
     [kw |-> <<"f","r","o","z","e","n"," ","f","r","u","i","t">>, cat |-> "frozen"],
     [kw |-> <<"f","r","o","z","e","n"," ","b","e","r","r","i","e","s">>, cat |-> "frozen"],
     [kw |-> <<"r","i","c","e">>, cat |-> "pantry"],
     [kw |-> <<"p","a","s","t","a">>, cat |-> "pantry"],
     [kw |-> <<"f","l","o","u","r">>, cat |-> "pantry"],
     [kw |-> <<"s","u","g","a","r">>, cat |-> "pantry"],
     [kw |-> <<"s","a","l","t">>, cat |-> "pantry"],
     [kw |-> <<"o","i","l">>, cat |-> "pantry"],
     [kw |-> <<"o","l","i","v","e"," ","o","i","l">>, cat |-> "pantry"],
     [kw |-> <<"v","e","g","e","t","a","b","l","e"," ","o","i","l">>, cat |-> "pantry"],
     [kw |-> <<"c","o","c","o","n","u","t"," ","o","i","l">>, cat |-> "pantry"],
     [kw |-> <<"b","e","a","n","s">>, cat |-> "pantry"],
     [kw |-> <<"l","e","n","t","i","l","s">>, cat |-> "pantry"],
     [kw |-> <<"o","a","t","s">>, cat |-> "pantry"],
     [kw |-> <<"c","e","r","e","a","l">>, cat |-> "pantry"],
     [kw |-> <<"p","e","a","n","u","t"," ","b","u","t","t","e","r">>, cat |-> "pantry"],
     [kw |-> <<"c","a","n","n","e","d"," ","t","o","m","a","t","o","e","s">>, cat |-> "pantry"],
     [kw |-> <<"t","o","m","a","t","o"," ","p","a","s","t","e">>, cat |-> "pantry"],
     [kw |-> <<"t","o","m","a","t","o"," ","s","a","u","c","e">>, cat |-> "pantry"],
     [kw |-> <<"c","h","i","c","k","e","n"," ","b","r","o","t","h">>, cat |-> "pantry"],
     [kw |-> <<"b","r","o","t","h">>, cat |-> "pantry"],
     [kw |-> <<"n","o","o","d","l","e","s">>, cat |-> "pantry"],
     [kw |-> <<"q","u","i","n","o","a">>, cat |-> "pantry"],
     [kw |-> <<"b","a","k","i","n","g"," ","s","o","d","a">>, cat |-> "pantry"],
     [kw |-> <<"b","a","k","i","n","g"," ","p","o","w","d","e","r">>, cat |-> "pantry"],
     [kw |-> <<"v","a","n","i","l","l","a">>, cat |-> "pantry"],
     [kw |-> <<"h","o","n","e","y">>, cat |-> "pantry"],
     [kw |-> <<"v","i","n","e","g","a","r">>, cat |-> "pantry"],
     [kw |-> <<"n","u","t","s">>, cat |-> "pantry"],
     [kw |-> <<"a","l","m","o","n","d","s">>, cat |-> "pantry"],
     [kw |-> <<"w","a","l","n","u","t","s">>, cat |-> "pantry"],
     [kw |-> <<"w","a","t","e","r">>, cat |-> "beverages"],
     [kw |-> <<"j","u","i","c","e">>, cat |-> "beverages"],
     [kw |-> <<"c","o","f","f","e","e">>, cat |-> "beverages"],
     [kw |-> <<"t","e","a">>, cat |-> "beverages"],
     [kw |-> <<"s","o","d","a">>, cat |-> "beverages"],
     [kw |-> <<"w","i","n","e">>, cat |-> "beverages"],
     [kw |-> <<"b","e","e","r">>, cat |-> "beverages"],
     [kw |-> <<"c","h","i","p","s">>, cat |-> "snacks"],
     [kw |-> <<"c","r","a","c","k","e","r","s">>, cat |-> "snacks"],
     [kw |-> <<"c","o","o","k","i","e","s">>, cat |-> "snacks"],
     [kw |-> <<"p","o","p","c","o","r","n">>, cat |-> "snacks"],
     [kw |-> <<"g","r","a","n","o","l","a">>, cat |-> "snacks"],
     [kw |-> <<"g","r","a","n","o","l","a"," ","b","a","r","s">>, cat |-> "snacks"],
     [kw |-> <<"p","r","e","t","z","e","l","s">>, cat |-> "snacks"],
     [kw |-> <<"c","h","o","c","o","l","a","t","e">>, cat |-> "snacks"],
     [kw |-> <<"k","e","t","c","h","u","p">>, cat |-> "condiments"],
     [kw |-> <<"m","u","s","t","a","r","d">>, cat |-> "condiments"],
     [kw |-> <<"m","a","y","o">>, cat |-> "condiments"],
     [kw |-> <<"m","a","y","o","n","n","a","i","s","e">>, cat |-> "condiments"],
     [kw |-> <<"s","o","y"," ","s","a","u","c","e">>, cat |-> "condiments"],
     [kw |-> <<"h","o","t"," ","s","a","u","c","e">>, cat |-> "condiments"],
     [kw |-> <<"s","a","l","s","a">>, cat |-> "condiments"],
     [kw |-> <<"s","a","l","a","d"," ","d","r","e","s","s","i","n","g">>, cat |-> "condiments"],
     [kw |-> <<"b","b","q"," ","s","a","u","c","e">>, cat |-> "condiments"],
     [kw |-> <<"s","r","i","r","a","c","h","a">>, cat |-> "condiments"],
     [kw |-> <<"p","a","p","e","r"," ","t","o","w","e","l","s">>, cat |-> "household"],
     [kw |-> <<"t","o","i","l","e","t"," ","p","a","p","e","r">>, cat |-> "household"],
     [kw |-> <<"t","r","a","s","h"," ","b","a","g","s">>, cat |-> "household"],
     [kw |-> <<"d","i","s","h"," ","s","o","a","p">>, cat |-> "household"],
     [kw |-> <<"l","a","u","n","d","r","y"," ","d","e","t","e","r","g","e","n","t">>, cat |-> "household"],
     [kw |-> <<"s","p","o","n","g","e">>, cat |-> "household"],
     [kw |-> <<"a","l","u","m","i","n","u","m"," ","f","o","i","l">>, cat |-> "household"],
     [kw |-> <<"p","l","a","s","t","i","c"," ","w","r","a","p">>, cat |-> "household"],
     [kw |-> <<"s","h","a","m","p","o","o">>, cat |-> "personal_care"],
     [kw |-> <<"c","o","n","d","i","t","i","o","n","e","r">>, cat |-> "personal_care"],
     [kw |-> <<"s","o","a","p">>, cat |-> "personal_care"],
     [kw |-> <<"t","o","o","t","h","p","a","s","t","e">>, cat |-> "personal_care"],
     [kw |-> <<"d","e","o","d","o","r","a","n","t">>, cat |-> "personal_care"],
     [kw |-> <<"l","o","t","i","o","n">>, cat |-> "personal_care"]
  >>

\* KEYWORD_MAP is a plain object: a property read that finds no own property
\* goes on to Object.prototype, whose properties are all truthy values.
ObjectPrototype ==
  <<
     [prop |-> <<"c","o","n","s","t","r","u","c","t","o","r">>,
      value |-> "[Function: Object]"],
     [prop |-> <<"_","_","p","r","o","t","o","_","_">>,
      value |-> "[Object: null prototype] {}"],
     [prop |-> <<"t","o","S","t","r","i","n","g">>,
      value |-> "[Function: toString]"],
     [prop |-> <<"v","a","l","u","e","O","f">>,
      value |-> "[Function: valueOf]"],
     [prop |-> <<"h","a","s","O","w","n","P","r","o","p","e","r","t","y">>,
      value |-> "[Function: hasOwnProperty]"]
  >>

Undefined ==
  "undefined"

\* The own keys of KEYWORD_MAP.
KeywordSet ==
  {KEYWORD_MAP[i].kw : i \in DOMAIN KEYWORD_MAP}

\* The entries of Object.entries(KEYWORD_MAP) whose keyword includes a space.
PhraseEntries ==
  {i \in DOMAIN KEYWORD_MAP : Includes(KEYWORD_MAP[i].kw, <<" ">>)}

\* KEYWORD_MAP[name]: the own property, else the inherited one, else undefined.
KeywordMapGet(name) ==
  IF name \in KeywordSet
    THEN KEYWORD_MAP[CHOOSE i \in DOMAIN KEYWORD_MAP : KEYWORD_MAP[i].kw = name].cat
  ELSE IF \E i \in DOMAIN ObjectPrototype : ObjectPrototype[i].prop = name
    THEN ObjectPrototype[CHOOSE i \in DOMAIN ObjectPrototype : ObjectPrototype[i].prop = name].value
  ELSE Undefined

(***************************************************************************)
(* categorizeItem                                                          *)
(***************************************************************************)

\* First loop over cat.keywords: an exact match or a contained phrase.
CustomKeywordPass(normalized, cat) ==
  \E k \in DOMAIN cat.keywords :
    LET kw == ToLowerCase(cat.keywords[k])
    IN  \/ normalized = kw
        \/ Includes(kw, <<" ">>) /\ Includes(normalized, kw)

\* Second loop, the single-word fallback of the same category.
CustomWordPass(normalized, cat) ==
  LET words == SplitWhiteSpace(normalized)
  IN  \E w \in DOMAIN words : \E k \in DOMAIN cat.keywords :
        words[w] = ToLowerCase(cat.keywords[k])

\* One iteration of `for (const cat of customCategories)`: every return in
\* the body returns cat.key.
CustomCategoryReturns(normalized, cat) ==
  CustomKeywordPass(normalized, cat) \/ CustomWordPass(normalized, cat)

\* The built-in part: exact match, then multi-word phrase, then single word.
BuiltInCategorize(normalized) ==
  LET phrases == {i \in PhraseEntries : Includes(normalized, KEYWORD_MAP[i].kw)}
      words == SplitWhiteSpace(normalized)
      hits == {w \in DOMAIN words : KeywordMapGet(words[w]) # Undefined}
  IN  IF KeywordMapGet(normalized) # Undefined THEN KeywordMapGet(normalized)
      ELSE IF phrases # {} THEN KEYWORD_MAP[Least(phrases)].cat
      ELSE IF hits # {} THEN KeywordMapGet(words[Least(hits)])
      ELSE CATEGORIES_OTHER

\* Variant: the built-in keywords are tried before the custom categories.
categorizeItem_BuiltInFirst(name, custom) ==
  LET normalized == Trim(ToLowerCase(name))
      matching == {c \in DOMAIN custom : CustomCategoryReturns(normalized, custom[c])}
  IN  IF BuiltInCategorize(normalized) # CATEGORIES_OTHER
        THEN BuiltInCategorize(normalized)
      ELSE IF matching # {} THEN custom[Least(matching)].key
      ELSE CATEGORIES_OTHER

\* Variant: the kind of match ranks across all custom categories (exact in
\* any category, then phrase in any, then single word in any).
categorizeItem_KindFirst(name, custom) ==
  LET normalized == Trim(ToLowerCase(name))
      words == SplitWhiteSpace(normalized)
      lower(c, k) == ToLowerCase(custom[c].keywords[k])
      exact == {c \in DOMAIN custom :
                  \E k \in DOMAIN custom[c].keywords : normalized = lower(c, k)}
      phrase == {c \in DOMAIN custom :
                   \E k \in DOMAIN custom[c].keywords :
                     Includes(lower(c, k), <<" ">>) /\ Includes(normalized, lower(c, k))}
      word == {c \in DOMAIN custom :
                 \E k \in DOMAIN custom[c].keywords :
                   \E w \in DOMAIN words : words[w] = lower(c, k)}
  IN  IF exact # {} THEN custom[Least(exact)].key
      ELSE IF phrase # {} THEN custom[Least(phrase)].key
      ELSE IF word # {} THEN custom[Least(word)].key
      ELSE BuiltInCategorize(normalized)

\* Variant: the name is trimmed but not lowercased.
categorizeItem_CaseSensitive(name, custom) ==
  LET normalized == Trim(name)
      matching == {c \in DOMAIN custom : CustomCategoryReturns(normalized, custom[c])}
  IN  IF matching # {} THEN custom[Least(matching)].key
      ELSE BuiltInCategorize(normalized)

categorizeItem(name, custom) ==
  LET normalized == Trim(ToLowerCase(name))
      matching == {c \in DOMAIN custom : CustomCategoryReturns(normalized, custom[c])}
  IN  IF matching # {} THEN custom[Least(matching)].key
      ELSE BuiltInCategorize(normalized)

\* Variant: the custom keys are appended after "other".
getAllCategoryKeys_CustomLast(custom) ==
  CATEGORIES \o [c \in DOMAIN custom |-> custom[c].key]

\* getAllCategoryKeys: the custom keys spliced in before "other".
getAllCategoryKeys(custom) ==
  LET builtIn == CATEGORIES
      customKeys == [c \in DOMAIN custom |-> custom[c].key]
      otherIndex == CHOOSE i \in DOMAIN builtIn : builtIn[i] = CATEGORIES_OTHER
  IN  SubSeq(builtIn, 1, otherIndex - 1) \o customKeys
        \o SubSeq(builtIn, otherIndex, Len(builtIn))

(***************************************************************************)
(* Suggestion engine                                                       *)
(***************************************************************************)

\* Each pair <<a, b>> is bidirectional.
ITEM_PAIRINGS ==
  <<
     <<<<"b","r","e","a","d">>,
       <<"b","u","t","t","e","r">>>>,
     <<<<"p","a","s","t","a">>,
       <<"t","o","m","a","t","o"," ","s","a","u","c","e">>>>,
     <<<<"c","h","i","p","s">>,
       <<"s","a","l","s","a">>>>,
     <<<<"h","a","m","b","u","r","g","e","r"," ","b","u","n","s">>,
       <<"g","r","o","u","n","d"," ","b","e","e","f">>>>,
     <<<<"h","o","t"," ","d","o","g"," ","b","u","n","s">>,
       <<"h","o","t"," ","d","o","g","s">>>>,
     <<<<"c","e","r","e","a","l">>,
       <<"m","i","l","k">>>>,
     <<<<"p","e","a","n","u","t"," ","b","u","t","t","e","r">>,
       <<"j","e","l","l","y">>>>,
     <<<<"e","g","g","s">>,
       <<"b","a","c","o","n">>>>,
     <<<<"l","e","t","t","u","c","e">>,
       <<"t","o","m","a","t","o","e","s">>>>,
     <<<<"t","o","r","t","i","l","l","a","s">>,
       <<"c","h","e","e","s","e">>>>,
     <<<<"r","i","c","e">>,
       <<"b","e","a","n","s">>>>,
     <<<<"s","p","a","g","h","e","t","t","i">>,
       <<"p","a","r","m","e","s","a","n">>>>,
     <<<<"c","o","f","f","e","e">>,
       <<"c","r","e","a","m">>>>,
     <<<<"c","r","a","c","k","e","r","s">>,
       <<"c","h","e","e","s","e">>>>,
     <<<<"a","v","o","c","a","d","o">>,
       <<"l","i","m","e">>>>,
     <<<<"c","h","i","c","k","e","n">>,
       <<"r","i","c","e">>>>,
     <<<<"s","a","l","m","o","n">>,
       <<"l","e","m","o","n">>>>,
     <<<<"s","t","e","a","k">>,
       <<"p","o","t","a","t","o","e","s">>>>
  >>

\* Array.prototype.slice(start, end): a negative index counts from the end.
Slice(arr, start, end) ==
  LET n == Len(arr)
      from == IF start < 0 THEN (IF n + start < 0 THEN 0 ELSE n + start)
              ELSE (IF start > n THEN n ELSE start)
      to == IF end < 0 THEN (IF n + end < 0 THEN 0 ELSE n + end)
            ELSE (IF end > n THEN n ELSE end)
  IN  SubSeq(arr, from + 1, to)

\* Array.prototype.reverse
Reverse(arr) ==
  [i \in 1..Len(arr) |-> arr[Len(arr) + 1 - i]]

\* [...new Set(arr)]: the distinct elements in order of first occurrence.
Unique(arr) ==
  LET firsts == {i \in 1..Len(arr) : \A j \in 1..(i - 1) : arr[j] # arr[i]}
      nth(k) == CHOOSE i \in firsts : Cardinality({j \in firsts : j < i}) = k - 1
  IN  [k \in 1..Cardinality(firsts) |-> arr[nth(k)]]

\* new Set(currentItems.map((i) => i.name.toLowerCase()))
CurrentNames(items) ==
  {ToLowerCase(items[i].name) : i \in 1..Len(items)}

\* getItemFrequency: the Map's entries, in insertion order, as <<key, count>>.
getItemFrequency(hist) ==
  LET keys == Unique([i \in 1..Len(hist) |-> ToLowerCase(hist[i].name)])
  IN  [k \in 1..Len(keys) |->
         <<keys[k], Cardinality({i \in 1..Len(hist) : ToLowerCase(hist[i].name) = keys[k]})>>]

\* entries.sort((a, b) => b[1] - a[1]): descending count; the sort is stable,
\* so equal counts keep their order.
SortByCountDescending(entries) ==
  LET before(i, j) == \/ entries[i][2] > entries[j][2]
                      \/ entries[i][2] = entries[j][2] /\ i < j
      rank(i) == Cardinality({j \in 1..Len(entries) : before(j, i)}) + 1
  IN  [k \in 1..Len(entries) |-> entries[CHOOSE i \in 1..Len(entries) : rank(i) = k]]

RECURSIVE PairingsFrom(_, _)
PairingsFrom(p, currentNames) ==
  IF p > Len(ITEM_PAIRINGS) THEN <<>>
  ELSE LET a == ITEM_PAIRINGS[p][1]
           b == ITEM_PAIRINGS[p][2]
       IN  (IF a \in currentNames /\ b \notin currentNames THEN <<b>> ELSE <<>>)
             \o (IF b \in currentNames /\ a \notin currentNames THEN <<a>> ELSE <<>>)
             \o PairingsFrom(p + 1, currentNames)

\* Variant: a pair is read forwards only, from its first name to its second.
getPairingSuggestions_ForwardOnly(items) ==
  LET currentNames == CurrentNames(items)
      forward == SelectSeq(ITEM_PAIRINGS,
                           LAMBDA p : p[1] \in currentNames /\ p[2] \notin currentNames)
  IN  [i \in 1..Len(forward) |-> forward[i][2]]

getPairingSuggestions(items) ==
  PairingsFrom(1, CurrentNames(items))

OftenBoughtTogether ==
  [text |-> "Often bought together", count |-> 0]

\* `Purchased ${count} times before`
PurchasedTimesBefore(n) ==
  [text |-> "Purchased N times before", count |-> n]

RecentlyPurchased ==
  [text |-> "Recently purchased", count |-> 0]

\* The frequency entries taken: the first 20 of the sorted entries.
TOP_FREQUENT ==
  20

\* The recent history entries taken: the last 30.
RECENT_WINDOW ==
  30

\* The least count a frequency suggestion needs.
MIN_COUNT ==
  2

DEFAULT_MAX_SUGGESTIONS ==
  8

\* Variant: the names of the current items are not looked at.
addSuggestion_IgnoringCurrent(acc, currentNames, name, reason) ==
  LET key == ToLowerCase(name)
  IN  IF key \in acc.seen THEN acc
      ELSE [seen |-> acc.seen \cup {key},
            suggestions |-> Append(acc.suggestions,
               [name |-> name, reason |-> reason,
                category |-> categorizeItem(name, <<>>)])]

\* Variant: the names already suggested are not looked at.
addSuggestion_IgnoringSeen(acc, currentNames, name, reason) ==
  LET key == ToLowerCase(name)
  IN  IF key \in currentNames THEN acc
      ELSE [seen |-> acc.seen \cup {key},
            suggestions |-> Append(acc.suggestions,
               [name |-> name, reason |-> reason,
                category |-> categorizeItem(name, <<>>)])]

\* addSuggestion(name, reason), on acc = [suggestions, seen].
addSuggestion(acc, currentNames, name, reason) ==
  LET key == ToLowerCase(name)
  IN  IF key \in currentNames \/ key \in acc.seen THEN acc
      ELSE [seen |-> acc.seen \cup {key},
            suggestions |-> Append(acc.suggestions,
               [name |-> name, reason |-> reason,
                category |-> categorizeItem(name, <<>>)])]

\* addSuggestion over the candidates <<name, reason>> in order; a candidate
\* that is not added leaves the suggestions as they are.
RECURSIVE AddEach(_, _, _)
AddEach(acc, currentNames, candidates) ==
  IF candidates = <<>> THEN acc
  ELSE LET added == addSuggestion(acc, currentNames, candidates[1][1], candidates[1][2])
       IN  IF Len(added.suggestions) = Len(acc.suggestions)
             THEN AddEach(acc, currentNames, Tail(candidates))
             ELSE AddEach(added, currentNames, Tail(candidates))

PairingCandidates(items) ==
  LET pairings == getPairingSuggestions(items)
  IN  [i \in 1..Len(pairings) |-> <<pairings[i], OftenBoughtTogether>>]

\* Variant: every name of the history is taken, not the first 20.
FrequencyCandidates_EveryName(hist) ==
  LET sorted == SortByCountDescending(getItemFrequency(hist))
      frequent == SelectSeq(sorted, LAMBDA e : e[2] >= MIN_COUNT)
  IN  [i \in 1..Len(frequent) |-> <<frequent[i][1], PurchasedTimesBefore(frequent[i][2])>>]

FrequencyCandidates(hist) ==
  LET sorted == Slice(SortByCountDescending(getItemFrequency(hist)), 0, TOP_FREQUENT)
      frequent == SelectSeq(sorted, LAMBDA e : e[2] >= MIN_COUNT)
  IN  [i \in 1..Len(frequent) |-> <<frequent[i][1], PurchasedTimesBefore(frequent[i][2])>>]

\* Variant: the whole history is looked at, not the last 30 entries.
RecencyCandidates_WholeHistory(hist) ==
  LET recent == Reverse(hist)
      recentItems == [i \in 1..Len(recent) |-> recent[i].name]
      uniqueRecent == Unique(recentItems)
  IN  [i \in 1..Len(uniqueRecent) |-> <<uniqueRecent[i], RecentlyPurchased>>]

RecencyCandidates(hist) ==
  LET recent == Reverse(Slice(hist, 0 - RECENT_WINDOW, Len(hist)))
      recentItems == [i \in 1..Len(recent) |-> recent[i].name]
      uniqueRecent == Unique(recentItems)
  IN  [i \in 1..Len(uniqueRecent) |-> <<uniqueRecent[i], RecentlyPurchased>>]

\* Variant: the result is returned whole.
getSuggestions_Untruncated(hist, items, max) ==
  LET currentNames == CurrentNames(items)
      empty == [seen |-> {}, suggestions |-> <<>>]
      afterPairings == AddEach(empty, currentNames, PairingCandidates(items))
      afterFrequency == AddEach(afterPairings, currentNames, FrequencyCandidates(hist))
      afterRecency == AddEach(afterFrequency, currentNames, RecencyCandidates(hist))
  IN  afterRecency.suggestions

\* Variant: the recent items are added before the frequent ones.
getSuggestions_RecencyFirst(hist, items, max) ==
  LET limit == IF max.omitted THEN DEFAULT_MAX_SUGGESTIONS ELSE max.value
      currentNames == CurrentNames(items)
      empty == [seen |-> {}, suggestions |-> <<>>]
      afterPairings == AddEach(empty, currentNames, PairingCandidates(items))
      afterRecency == AddEach(afterPairings, currentNames, RecencyCandidates(hist))
      afterFrequency == AddEach(afterRecency, currentNames, FrequencyCandidates(hist))
  IN  Slice(afterFrequency.suggestions, 0, limit)

\* max is the third argument as passed: omitted, or a number.
getSuggestions(hist, items, max) ==
  LET limit == IF max.omitted THEN DEFAULT_MAX_SUGGESTIONS ELSE max.value
      currentNames == CurrentNames(items)
      empty == [seen |-> {}, suggestions |-> <<>>]
      afterPairings == AddEach(empty, currentNames, PairingCandidates(items))
      afterFrequency == AddEach(afterPairings, currentNames, FrequencyCandidates(hist))
      afterRecency == AddEach(afterFrequency, currentNames, RecencyCandidates(hist))
  IN  Slice(afterRecency.suggestions, 0, limit)

(***************************************************************************)
(* Recipe parser                                                           *)
(***************************************************************************)

\* The unit words, each alternative of the pattern as its stem and the
\* suffix the pattern makes optional ('cups?' is "cup" with optional "s").
UNITS ==
  <<
     [stem |-> <<"c","u","p">>, optional |-> <<"s">>],
     [stem |-> <<"c","u","p">>, optional |-> <<>>],
     [stem |-> <<"t","b","s","p">>, optional |-> <<>>],
     [stem |-> <<"t","a","b","l","e","s","p","o","o","n">>, optional |-> <<"s">>],
     [stem |-> <<"t","s","p">>, optional |-> <<>>],
     [stem |-> <<"t","e","a","s","p","o","o","n">>, optional |-> <<"s">>],
     [stem |-> <<"o","z">>, optional |-> <<>>],
     [stem |-> <<"o","u","n","c","e">>, optional |-> <<"s">>],
     [stem |-> <<"l","b">>, optional |-> <<"s">>],
     [stem |-> <<"p","o","u","n","d">>, optional |-> <<"s">>],
     [stem |-> <<"g","r","a","m">>, optional |-> <<"s">>],
     [stem |-> <<"k","g">>, optional |-> <<>>],
     [stem |-> <<"m","l">>, optional |-> <<>>],
     [stem |-> <<"l","i","t","e","r">>, optional |-> <<"s">>],
     [stem |-> <<"q","u","a","r","t">>, optional |-> <<"s">>],
     [stem |-> <<"p","i","n","t">>, optional |-> <<"s">>],
     [stem |-> <<"g","a","l","l","o","n">>, optional |-> <<"s">>],
     [stem |-> <<"c","l","o","v","e">>, optional |-> <<"s">>],
     [stem |-> <<"s","l","i","c","e">>, optional |-> <<"s">>],
     [stem |-> <<"p","i","e","c","e">>, optional |-> <<"s">>],
     [stem |-> <<"c","a","n">>, optional |-> <<"s">>],
     [stem |-> <<"p","a","c","k","a","g","e">>, optional |-> <<"s">>],
     [stem |-> <<"b","u","n","c","h","e">>, optional |-> <<"s">>],
     [stem |-> <<"h","e","a","d">>, optional |-> <<"s">>],
     [stem |-> <<"s","t","a","l","k">>, optional |-> <<"s">>],
     [stem |-> <<"s","p","r","i","g">>, optional |-> <<"s">>],
     [stem |-> <<"p","i","n","c","h">>, optional |-> <<"e","s">>],
     [stem |-> <<"d","a","s","h">>, optional |-> <<"e","s">>],
     [stem |-> <<"h","a","n","d","f","u","l">>, optional |-> <<"s">>]
  >>

\* The words an alternative of UNITS matches.
UnitForms ==
  {UNITS[u].stem : u \in DOMAIN UNITS}
    \cup {UNITS[u].stem \o UNITS[u].optional : u \in DOMAIN UNITS}

Digits ==
  {"0","1","2","3","4","5","6","7","8","9"}

\* The character class [\d./\s-].
QuantityChars ==
  Digits \cup {".", "/", "-"} \cup WhiteSpace

\* The index after the run of quantity characters that starts at i.
RECURSIVE QuantityEnd(_, _)
QuantityEnd(s, i) ==
  IF i > Len(s) \/ s[i] \notin QuantityChars THEN i ELSE QuantityEnd(s, i + 1)

\* The index after the run of non-white-space characters that starts at i.
RECURSIVE TokenEnd(_, _)
TokenEnd(s, i) ==
  IF i > Len(s) \/ s[i] \in WhiteSpace THEN i ELSE TokenEnd(s, i + 1)

\* UNIT_PATTERN, /^[\d./\s-]+(?:units)\s+(?:of\s+)?/i: the length of its
\* match at the start of s, 0 when it does not match. The quantity run must
\* not be empty; a unit is letters only and white space must follow it, so
\* the unit is the whole word after the quantity run.
UNIT_PATTERN(s) ==
  LET unitFrom == QuantityEnd(s, 1)
      unitTo == TokenEnd(s, unitFrom)
      afterUnit == FirstInk(s, unitTo)
      hasOf == /\ afterUnit + 2 <= Len(s)
               /\ ToLowerCase(SubSeq(s, afterUnit, afterUnit + 1)) = <<"o","f">>
               /\ s[afterUnit + 2] \in WhiteSpace
  IN  IF \/ unitFrom = 1
         \/ unitTo > Len(s)
         \/ ToLowerCase(SubSeq(s, unitFrom, unitTo - 1)) \notin UnitForms
        THEN 0
      ELSE IF hasOf THEN FirstInk(s, afterUnit + 2) - 1
      ELSE afterUnit - 1

\* replace(/\(.*?\)/g, ''): every "(" with a later ")" goes with the text up
\* to the nearest ")".
RECURSIVE RemoveParentheticals(_)
RemoveParentheticals(s) ==
  IF s = <<>> THEN <<>>
  ELSE LET closes == {j \in 2..Len(s) : s[j] = ")"}
       IN  IF s[1] = "(" /\ closes # {}
             THEN RemoveParentheticals(SubSeq(s, Least(closes) + 1, Len(s)))
             ELSE <<s[1]>> \o RemoveParentheticals(Tail(s))

\* replace(/,.*$/, ''): the text from the first comma goes.
RemoveFromComma(s) ==
  LET commas == {j \in 1..Len(s) : s[j] = ","}
  IN  IF commas = {} THEN s ELSE SubSeq(s, 1, Least(commas) - 1)

\* replace(/^[\d./\s-]+/, '')
RemoveLeadingQuantity(s) ==
  SubSeq(s, QuantityEnd(s, 1), Len(s))

\* Variant: no fallback to the original line.
stripQuantity_NoFallback(line) ==
  LET bare == Trim(RemoveFromComma(RemoveParentheticals(line)))
      unquantified == Trim(RemoveLeadingQuantity(bare))
  IN  Trim(SubSeq(unquantified, UNIT_PATTERN(unquantified) + 1, Len(unquantified)))

stripQuantity(line) ==
  LET bare == Trim(RemoveFromComma(RemoveParentheticals(line)))
      unquantified == Trim(RemoveLeadingQuantity(bare))
      cleaned == Trim(SubSeq(unquantified, UNIT_PATTERN(unquantified) + 1,
                             Len(unquantified)))
  IN  IF cleaned = <<>> THEN Trim(RemoveLeadingQuantity(line)) ELSE cleaned

RECIPE_TEMPLATES ==
  <<
     [id |-> "spaghetti-bolognese",
      ingredients |->
        <<<<"s","p","a","g","h","e","t","t","i">>,
          <<"g","r","o","u","n","d"," ","b","e","e","f">>,
          <<"t","o","m","a","t","o"," ","s","a","u","c","e">>,
          <<"o","n","i","o","n">>,
          <<"g","a","r","l","i","c">>,
          <<"o","l","i","v","e"," ","o","i","l">>,
          <<"p","a","r","m","e","s","a","n">>,
          <<"s","a","l","t">>,
          <<"p","e","p","p","e","r">>,
          <<"b","a","s","i","l">>>>],
     [id |-> "chicken-stir-fry",
      ingredients |->
        <<<<"c","h","i","c","k","e","n"," ","b","r","e","a","s","t">>,
          <<"b","r","o","c","c","o","l","i">>,
          <<"b","e","l","l"," ","p","e","p","p","e","r">>,
          <<"s","o","y"," ","s","a","u","c","e">>,
          <<"g","a","r","l","i","c">>,
          <<"g","i","n","g","e","r">>,
          <<"r","i","c","e">>,
          <<"v","e","g","e","t","a","b","l","e"," ","o","i","l">>,
          <<"s","e","s","a","m","e"," ","o","i","l">>>>],
     [id |-> "tacos",
      ingredients |->
        <<<<"g","r","o","u","n","d"," ","b","e","e","f">>,
          <<"t","o","r","t","i","l","l","a","s">>,
          <<"c","h","e","e","s","e">>,
          <<"l","e","t","t","u","c","e">>,
          <<"t","o","m","a","t","o","e","s">>,
          <<"s","o","u","r"," ","c","r","e","a","m">>,
          <<"s","a","l","s","a">>,
          <<"o","n","i","o","n">>,
          <<"c","i","l","a","n","t","r","o">>,
          <<"l","i","m","e">>>>],
     [id |-> "caesar-salad",
      ingredients |->
        <<<<"r","o","m","a","i","n","e"," ","l","e","t","t","u","c","e">>,
          <<"p","a","r","m","e","s","a","n">>,
          <<"c","r","o","u","t","o","n","s">>,
          <<"l","e","m","o","n">>,
          <<"g","a","r","l","i","c">>,
          <<"o","l","i","v","e"," ","o","i","l">>,
          <<"a","n","c","h","o","v","y"," ","p","a","s","t","e">>,
          <<"e","g","g","s">>>>],
     [id |-> "pancakes",
      ingredients |->
        <<<<"f","l","o","u","r">>,
          <<"e","g","g","s">>,
          <<"m","i","l","k">>,
          <<"b","u","t","t","e","r">>,
          <<"s","u","g","a","r">>,
          <<"b","a","k","i","n","g"," ","p","o","w","d","e","r">>,
          <<"s","a","l","t">>,
          <<"v","a","n","i","l","l","a">>,
          <<"m","a","p","l","e"," ","s","y","r","u","p">>>>],
     [id |-> "grilled-salmon",
      ingredients |->
        <<<<"s","a","l","m","o","n">>,
          <<"l","e","m","o","n">>,
          <<"g","a","r","l","i","c">>,
          <<"o","l","i","v","e"," ","o","i","l">>,
          <<"a","s","p","a","r","a","g","u","s">>,
          <<"s","a","l","t">>,
          <<"p","e","p","p","e","r">>,
          <<"b","u","t","t","e","r">>,
          <<"d","i","l","l">>>>]
  >>

LineBreak ==
  "\n"

\* split('\n')
RECURSIVE SplitLines(_, _, _)
SplitLines(text, i, line) ==
  IF i > Len(text) THEN <<line>>
  ELSE IF text[i] = LineBreak THEN <<line>> \o SplitLines(text, i + 1, <<>>)
  ELSE SplitLines(text, i + 1, Append(line, text[i]))

\* The characters of [-*•].
BulletChars ==
  {"-", "*", "U+2022"}

\* line.replace(/^[-*•]\s*/, '').trim()
WithoutBullet(line) ==
  Trim(IF line # <<>> /\ line[1] \in BulletChars
         THEN SubSeq(line, FirstInk(line, 2), Len(line))
         ELSE line)

SectionHeaders ==
  {<<"i","n","s","t","r","u","c","t","i","o","n","s">>,
   <<"d","i","r","e","c","t","i","o","n","s">>,
   <<"s","t","e","p","s">>,
   <<"m","e","t","h","o","d">>}

\* /^(instructions|directions|steps|method)/i.test(line)
IsSectionHeader(line) ==
  \E h \in SectionHeaders :
    Len(line) >= Len(h) /\ ToLowerCase(SubSeq(line, 1, Len(h))) = h

\* Variant: the lines from the first section header on are dropped.
IngredientLines_UntilHeader(text) ==
  LET raw == SplitLines(text, 1, <<>>)
      lines == [i \in 1..Len(raw) |-> WithoutBullet(raw[i])]
      headers == {i \in 1..Len(lines) : IsSectionHeader(lines[i])}
      kept == IF headers = {} THEN lines ELSE SubSeq(lines, 1, Least(headers) - 1)
  IN  SelectSeq(kept, LAMBDA line : Len(line) > 0)

\* The lines of the text, without bullet, blank lines and section headers.
IngredientLines(text) ==
  LET raw == SplitLines(text, 1, <<>>)
      lines == [i \in 1..Len(raw) |-> WithoutBullet(raw[i])]
  IN  SelectSeq(lines, LAMBDA line : Len(line) > 0 /\ ~IsSectionHeader(line))

\* name.charAt(0).toUpperCase() + name.slice(1)
CapitalizeFirst(name) ==
  IF name = <<>> THEN <<>> ELSE <<UpperChar(name[1])>> \o Tail(name)

\* Variant: every call returns the same identifier.
uuidv4_Repeating(n) ==
  <<"uuid", 1>>

\* uuidv4(): the n-th identifier generated; no two are equal.
uuidv4(n) ==
  <<"uuid", n>>

\* Variant: only a name that is too short is passed over.
Skips_ShortOnly(key, seen) ==
  Len(key) < 2

\* key.length < 2 || seen.has(key)
Skips(key, seen) ==
  Len(key) < 2 \/ key \in seen

\* The loop over the lines; issued is the number of identifiers generated
\* before the call.
RECURSIVE ParseLines(_, _, _, _)
ParseLines(lines, seen, items, issued) ==
  IF lines = <<>> THEN items
  ELSE LET name == stripQuantity(Head(lines))
           key == ToLowerCase(name)
       IN  IF Skips(key, seen) THEN ParseLines(Tail(lines), seen, items, issued)
           ELSE ParseLines(Tail(lines), seen \cup {key},
                           Append(items, [id |-> uuidv4(issued + Len(items) + 1),
                                          name |-> CapitalizeFirst(name),
                                          category |-> categorizeItem(name, <<>>),
                                          isChecked |-> FALSE]),
                           issued)

parseRecipeText(text, issued) ==
  IF \A i \in DOMAIN text : text[i] \in WhiteSpace \cup {LineBreak}
    THEN <<>>
  ELSE ParseLines(IngredientLines(text), {}, <<>>, issued)

\* Variant: the ingredients go through the loop of the parser.
recipeTemplateToItems_Parsed(tmpl, issued) ==
  ParseLines(tmpl.ingredients, {}, <<>>, issued)

recipeTemplateToItems(tmpl, issued) ==
  [i \in 1..Len(tmpl.ingredients) |->
     [id |-> uuidv4(issued + i),
      name |-> CapitalizeFirst(tmpl.ingredients[i]),
      category |-> categorizeItem(tmpl.ingredients[i], <<>>),
      isChecked |-> FALSE]]

(***************************************************************************)
(* Shopping list store (reducer and actions of the local provider)         *)
(***************************************************************************)

\* No list selected: activeListId null.
Null ==
  <<>>

\* The history entries kept: the last 200.
HISTORY_LIMIT ==
  200

\* The string as it is.
capitalize_AsTyped(str) ==
  str

\* capitalize: the first letter in upper case.
capitalize(str) ==
  IF str = <<>> THEN <<>> ELSE <<UpperChar(str[1])>> \o Tail(str)

initialState ==
  [lists |-> <<>>, activeListId |-> Null, history |-> <<>>]

\* state.lists.map((list) => list.id === listId ? {...list, items} : list)
WithItemsAppended(lists, listId, newItems) ==
  [l \in DOMAIN lists |->
     IF lists[l].id = listId
       THEN [lists[l] EXCEPT !.items = lists[l].items \o newItems]
       ELSE lists[l]]

\* {...object, ...updates}: the fields of updates replace or extend those of
\* the object.
Spread(object, updates) ==
  [f \in DOMAIN object \cup DOMAIN updates |->
     IF f \in DOMAIN updates THEN updates[f] ELSE object[f]]

\* A mistaken slice, which keeps the oldest entries.
LastEntries_Oldest(entries) ==
  Slice(entries, 0, HISTORY_LIMIT)

\* entries.slice(-200)
LastEntries(entries) ==
  Slice(entries, 0 - HISTORY_LIMIT, Len(entries))

\* The reducer; issued is the number of identifiers generated before the
\* dispatch. The createdAt and addedAt time stamps are left out.
reducer(st, action, issued) ==
  CASE action.type = "SET_LISTS" ->
         [st EXCEPT !.lists = action.payload]
    [] action.type = "SET_HISTORY" ->
         [st EXCEPT !.history = action.payload]
    [] action.type = "CREATE_LIST" ->
         LET newList == [id |-> uuidv4(issued + 1),
                         name |-> action.payload.name,
                         items |-> <<>>]
         IN  [st EXCEPT !.lists = Append(st.lists, newList),
                        !.activeListId = newList.id]
    [] action.type = "DELETE_LIST" ->
         LET filtered == SelectSeq(st.lists, LAMBDA l : l.id # action.payload)
         IN  [st EXCEPT !.lists = filtered,
                        !.activeListId =
                          IF st.activeListId = action.payload
                            THEN (IF filtered = <<>> THEN Null ELSE filtered[1].id)
                            ELSE st.activeListId]
    [] action.type = "SELECT_LIST" ->
         [st EXCEPT !.activeListId = action.payload]
    [] action.type = "ADD_ITEM" ->
         LET name == capitalize(Trim(action.payload.name))
             newItem == [id |-> uuidv4(issued + 1),
                         name |-> name,
                         category |-> categorizeItem(name, <<>>),
                         isChecked |-> FALSE]
         IN  [st EXCEPT !.lists =
                WithItemsAppended(st.lists, action.payload.listId, <<newItem>>)]
    [] action.type = "ADD_ITEMS" ->
         LET items == action.payload.items
             capitalizedItems ==
               [i \in DOMAIN items |->
                  [items[i] EXCEPT !.name = capitalize(Trim(items[i].name))]]
         IN  [st EXCEPT !.lists =
                WithItemsAppended(st.lists, action.payload.listId, capitalizedItems)]
    [] action.type = "TOGGLE_ITEM" ->
         [st EXCEPT !.lists =
            [l \in DOMAIN st.lists |->
               IF st.lists[l].id = action.payload.listId
                 THEN [st.lists[l] EXCEPT !.items =
                         [i \in DOMAIN st.lists[l].items |->
                            IF st.lists[l].items[i].id = action.payload.itemId
                              THEN [st.lists[l].items[i] EXCEPT
                                      !.isChecked = ~st.lists[l].items[i].isChecked]
                              ELSE st.lists[l].items[i]]]
                 ELSE st.lists[l]]]
    [] action.type = "REMOVE_ITEM" ->
         [st EXCEPT !.lists =
            [l \in DOMAIN st.lists |->
               IF st.lists[l].id = action.payload.listId
                 THEN [st.lists[l] EXCEPT !.items =
                         SelectSeq(st.lists[l].items,
                                   LAMBDA i : i.id # action.payload.itemId)]
                 ELSE st.lists[l]]]
    [] action.type = "UPDATE_ITEM" ->
         [st EXCEPT !.lists =
            [l \in DOMAIN st.lists |->
               IF st.lists[l].id = action.payload.listId
                 THEN [st.lists[l] EXCEPT !.items =
                         [i \in DOMAIN st.lists[l].items |->
                            IF st.lists[l].items[i].id = action.payload.itemId
                              THEN Spread(st.lists[l].items[i], action.payload.updates)
                              ELSE st.lists[l].items[i]]]
                 ELSE st.lists[l]]]
    [] action.type = "CLEAR_CHECKED" ->
         [st EXCEPT !.lists =
            [l \in DOMAIN st.lists |->
               IF st.lists[l].id = action.payload.listId
                 THEN [st.lists[l] EXCEPT !.items =
                         SelectSeq(st.lists[l].items, LAMBDA i : ~i.isChecked)]
                 ELSE st.lists[l]]]
    [] action.type = "ADD_HISTORY" ->
         LET newEntry == [name |-> capitalize(Trim(action.payload.name))]
         IN  [st EXCEPT !.history = LastEntries(Append(st.history, newEntry))]
    [] OTHER -> st

\* for (const item of items) dispatch({type: ADD_HISTORY, payload: {name}})
RECURSIVE AddHistoryOfEach(_, _)
AddHistoryOfEach(st, items) ==
  IF items = <<>> THEN st
  ELSE AddHistoryOfEach(
         reducer(st, [type |-> "ADD_HISTORY", payload |-> [name |-> Head(items).name]], 0),
         Tail(items))

(***************************************************************************)
(* localStorage and the effects of the local provider                      *)
(***************************************************************************)

\* localStorage.getItem returns null for a key never written.
NoItem ==
  [present |-> FALSE, value |-> <<>>]

\* localStorage before the application has written to it.
emptyStorage ==
  [lists |-> NoItem, history |-> NoItem]

\* readStorage: raw ? JSON.parse(raw) : fallback. The stored text is
\* represented by the array it denotes: the lists and the entries hold
\* strings and booleans only, which JSON.stringify and JSON.parse give back
\* as they were; the text of an array is never the empty string.
readStorage(saved, key, fallback) ==
  IF saved[key].present THEN saved[key].value ELSE fallback

\* writeStorage: localStorage.setItem(key, JSON.stringify(value))
writeStorage(saved, key, value) ==
  [saved EXCEPT ![key] = [present |-> TRUE, value |-> value]]

loadLists(saved) ==
  readStorage(saved, "lists", <<>>)

saveLists(saved, lists) ==
  writeStorage(saved, "lists", lists)

loadHistory(saved) ==
  readStorage(saved, "history", <<>>)

saveHistory(saved, entries) ==
  writeStorage(saved, "history", entries)

\* The effect run on mount: the saved lists and the saved history are
\* dispatched into the initial state, the first saved list is selected.
Mounted(saved) ==
  LET lists == loadLists(saved)
      entries == loadHistory(saved)
      withLists ==
        IF Len(lists) > 0
          THEN reducer(reducer(initialState, [type |-> "SET_LISTS", payload |-> lists], 0),
                       [type |-> "SELECT_LIST", payload |-> lists[1].id], 0)
          ELSE initialState
  IN  IF Len(entries) > 0
        THEN reducer(withLists, [type |-> "SET_HISTORY", payload |-> entries], 0)
        ELSE withLists

\* The effect run when state.lists has changed.
PersistLists(saved, st) ==
  IF Len(st.lists) > 0 THEN saveLists(saved, st.lists) ELSE saved

\* The effect run when state.history has changed.
PersistHistory(saved, st) ==
  IF Len(st.history) > 0 THEN saveHistory(saved, st.history) ELSE saved

\* Both effects, run after the render that follows a dispatch.
Persisted(saved, st) ==
  PersistHistory(PersistLists(saved, st), st)

(***************************************************************************)
(* Firestore: the documents of the signed-in user and the functions of the *)
(* Firestore service. Every write (a document write or a committed batch)  *)
(* is applied in one step; the promise it returns is settled before the    *)
(* next step of the action that awaits it. A rejected promise ends the     *)
(* awaiting action.                                                        *)
(***************************************************************************)

\* The identifier Firestore generates for the n-th document added.
autoId(n) ==
  <<"doc", n>>

\* The uid of the signed-in user.
UserId ==
  <<"u","i","d">>

\* The collections under users/{uid}: lists by createdAt, the items of all
\* lists by addedAt (each with the list it is under), history by addedAt,
\* custom categories and stores by creation.
emptyDb ==
  [lists |-> <<>>, items |-> <<>>, history |-> <<>>,
   customCategories |-> <<>>, stores |-> <<>>]

\* The sequence without its i-th element.
Without(seq, i) ==
  SubSeq(seq, 1, i - 1) \o SubSeq(seq, i + 1, Len(seq))

\* The documents of a collection whose id is not among ids.
DocsExcept(docs, ids) ==
  SelectSeq(docs, LAMBDA d : d.id \notin ids)

DocIds(docs) ==
  {docs[i].id : i \in DOMAIN docs}

\* createList: addDoc(listsCol, {name, itemCount: 0, createdAt})
fsCreateList(d, id, name) ==
  [d EXCEPT !.lists = Append(@, [id |-> id, name |-> name, itemCount |-> 0])]

\* updateDoc on a document that does not exist is rejected.
ListExists(d, listId) ==
  listId \in DocIds(d.lists)

ItemExists(d, listId, itemId) ==
  \E i \in DOMAIN d.items : d.items[i].id = itemId /\ d.items[i].listId = listId

\* updateDoc(listDoc, {itemCount: increment(by)})
IncrementItemCount(d, listId, by) ==
  [d EXCEPT !.lists =
     [l \in DOMAIN d.lists |->
        IF d.lists[l].id = listId
          THEN [d.lists[l] EXCEPT !.itemCount = @ + by]
          ELSE d.lists[l]]]

\* The documents of users/{uid}/lists/{listId}/items, by addedAt.
ItemsUnder(d, listId) ==
  SelectSeq(d.items, LAMBDA i : i.listId = listId)

\* deleteList, after the snapshot: batch.delete of every item document of
\* the snapshot and of the list document, batch.commit().
CommitDeleteList(d, listId, snapshotIds) ==
  [d EXCEPT !.items = SelectSeq(@, LAMBDA i : ~(i.listId = listId /\ i.id \in snapshotIds)),
            !.lists = DocsExcept(@, {listId})]

\* addItem, first write: addDoc(itemsCol, {...item, addedAt})
AddItemDoc(d, listId, id, item) ==
  [d EXCEPT !.items = Append(@, Spread(item, [id |-> id, listId |-> listId]))]

\* addItems: one batch that sets a document for every item and updates
\* itemCount by increment(items.length).
RECURSIVE AddItemDocs(_, _, _, _)
AddItemDocs(d, listId, issued, items) ==
  IF items = <<>> THEN d
  ELSE AddItemDocs(AddItemDoc(d, listId, autoId(issued + 1), Head(items)),
                   listId, issued + 1, Tail(items))

fsAddItems(d, listId, issued, items) ==
  IncrementItemCount(AddItemDocs(d, listId, issued, items), listId, Len(items))

\* updateItem: updateDoc(itemDoc, updates)
fsUpdateItem(d, listId, itemId, updates) ==
  [d EXCEPT !.items =
     [i \in DOMAIN d.items |->
        IF d.items[i].id = itemId /\ d.items[i].listId = listId
          THEN Spread(d.items[i], updates)
          ELSE d.items[i]]]

\* removeItem, first write: deleteDoc(itemDoc)
DeleteItemDoc(d, listId, itemId) ==
  [d EXCEPT !.items = SelectSeq(@, LAMBDA i : ~(i.id = itemId /\ i.listId = listId))]

\* clearCheckedItems: one batch that deletes the documents and updates
\* itemCount by increment(-checkedItemIds.length).
clearCheckedItems(d, listId, checkedItemIds) ==
  IncrementItemCount(
    [d EXCEPT !.items =
       SelectSeq(@, LAMBDA i : ~(i.listId = listId /\ i.id \in checkedItemIds))],
    listId, 0 - Cardinality(checkedItemIds))

\* addHistoryEntry: addDoc(historyCol, {name, addedAt})
addHistoryEntry(d, name) ==
  [d EXCEPT !.history = Append(@, [name |-> name])]

\* createCustomCategory: addDoc(categoriesCol, {...category, createdAt})
createCustomCategory(d, id, category) ==
  [d EXCEPT !.customCategories = Append(@, Spread(category, [id |-> id]))]

\* deleteCustomCategory: deleteDoc(categoryDoc)
deleteCustomCategory(d, catId) ==
  [d EXCEPT !.customCategories = DocsExcept(@, {catId})]

\* The index of the document with the id in an array of documents, 0 if none.
IndexOfId(docs, id) ==
  IF \E i \in DOMAIN docs : docs[i].id = id
    THEN CHOOSE i \in DOMAIN docs : docs[i].id = id
    ELSE 0

\* A batch of batch.update(doc, {order: index}) for every document of the
\* array passed; the batch is rejected when one of them does not exist.
SaveOrder(docs, ordered) ==
  [c \in DOMAIN docs |->
     IF docs[c].id \in DocIds(ordered)
       THEN [docs[c] EXCEPT !.order = IndexOfId(ordered, docs[c].id) - 1]
       ELSE docs[c]]

saveCustomCategoryOrder(d, categories) ==
  [d EXCEPT !.customCategories = SaveOrder(@, categories)]

\* query(col, orderBy('order', 'asc')): the documents by order; documents of
\* the same order come by document id, for which creation order stands.
RECURSIVE InsertByOrder(_, _)
InsertByOrder(sorted, doc) ==
  IF sorted = <<>> THEN <<doc>>
  ELSE IF doc.order < Head(sorted).order THEN <<doc>> \o sorted
  ELSE <<Head(sorted)>> \o InsertByOrder(Tail(sorted), doc)

RECURSIVE OrderedByOrder(_)
OrderedByOrder(docs) ==
  IF docs = <<>> THEN <<>>
  ELSE InsertByOrder(OrderedByOrder(SubSeq(docs, 1, Len(docs) - 1)), docs[Len(docs)])

\* createStore: addDoc(storesCol, {...store, createdAt})
createStore(d, id, store) ==
  [d EXCEPT !.stores = Append(@, Spread(store, [id |-> id]))]

\* updateStore: updateDoc(storeDoc, updates)
updateStore(d, storeId, updates) ==
  [d EXCEPT !.stores =
     [s \in DOMAIN d.stores |->
        IF d.stores[s].id = storeId THEN Spread(d.stores[s], updates) ELSE d.stores[s]]]

\* deleteStore: deleteDoc(storeDoc)
deleteStore(d, storeId) ==
  [d EXCEPT !.stores = DocsExcept(@, {storeId})]

(***************************************************************************)
(* The Firestore provider: its state hooks and what its effects do         *)
(***************************************************************************)

\* The state hooks before the user is known.
initialView ==
  [userId |-> Null, lists |-> <<>>, activeListId |-> Null, activeItems |-> <<>>,
   customCategories |-> <<>>, stores |-> <<>>, hasAutoSelected |-> FALSE]

\* activeList: the list of the view with the active id, if there is one.
HasActiveList(v) ==
  v.activeListId \in DocIds(v.lists)

\* setActiveListId(id), followed by the effect that subscribes to the items
\* of the active list: without an active list the items are emptied, with
\* one they stay until the first snapshot of the new subscription.
WithActiveListId(v, id) ==
  [v EXCEPT !.activeListId = id,
            !.activeItems = IF id = Null THEN <<>> ELSE @]

\* The callback of subscribeLists.
OnLists(v, newLists) ==
  LET shown == [v EXCEPT !.lists = newLists]
  IN  IF ~v.hasAutoSelected /\ Len(newLists) > 0
        THEN [WithActiveListId(shown, newLists[1].id) EXCEPT !.hasAutoSelected = TRUE]
        ELSE shown

\* The effects run when there is no user.
SignedOut(v) ==
  [v EXCEPT !.userId = Null, !.lists = <<>>, !.activeListId = Null,
            !.activeItems = <<>>, !.customCategories = <<>>, !.stores = <<>>,
            !.hasAutoSelected = FALSE]

(***************************************************************************)
(* Bounded inputs of the categorizer                                       *)
(***************************************************************************)

\* The most vocabulary entries joined into an item name.
MaxWords ==
  2

\* The most custom categories.
MaxCustom ==
  2

\* The words (and one two-word phrase) item names are made of.
Vocabulary ==
  {<<"i","c","e">>,
   <<"c","r","e","a","m">>,
   <<"c","h","e","e","s","e">>,
   <<"c","h","i","c","k","e","n">>,
   <<"b","r","o","t","h">>,
   <<"b","r","e","a","d">>,
   <<"c","o","n","s","t","r","u","c","t","o","r">>,
   <<"i","c","e"," ","c","r","e","a","m">>}

\* What separates the words of a name: a space, or a tab.
Separators ==
  {<<" ">>, <<"\t">>}

RECURSIVE Join(_, _)
Join(ws, sep) ==
  IF Len(ws) = 0 THEN <<>>
  ELSE IF Len(ws) = 1 THEN ws[1]
  ELSE ws[1] \o sep \o Join(Tail(ws), sep)

\* A name as typed: as is, with its first letter capitalized, or in capitals
\* between spaces.
Typed(s, style) ==
  CASE style = "plain" -> s
    [] style = "Capitalized" ->
         IF Len(s) = 0 THEN s ELSE <<UpperChar(s[1])>> \o Tail(s)
    [] style = "PADDED" -> <<" ">> \o ToUpperCase(s) \o <<" ">>

Styles ==
  {"plain", "Capitalized", "PADDED"}

WordLists ==
  UNION {[1..n -> Vocabulary] : n \in 0..MaxWords}

ItemNames ==
  {Typed(Join(ws, sep), st) : ws \in WordLists, sep \in Separators, st \in Styles}

\* The keys addCustomCategory gives the categories it creates:
\* `custom_${Date.now()}`.
CustomKeys ==
  <<"custom_1700000000001", "custom_1700000000002",
    "custom_1700000000003", "custom_1700000000004">>

\* The keyword lists a custom category may have (trimmed, non-empty, as the
\* category manager stores them).
KeywordLists ==
  {<<<<"C","r","e","a","m">>>>,
   <<<<"i","c","e"," ","c","r","e","a","m">>, <<"B","r","e","a","d">>>>}

CustomLists ==
  UNION {{[c \in 1..n |-> [key |-> CustomKeys[c], keywords |-> kws[c]]] :
            kws \in [1..n -> KeywordLists]} : n \in 0..MaxCustom}


(***************************************************************************)
(* Bounded inputs of the suggestion engine                                 *)
(***************************************************************************)

\* The most history entries.
MaxHistory ==
  3

\* The most items of a small current list.
MaxCurrent ==
  2

\* The largest maxSuggestions requested explicitly; the least is -1.
MaxRequested ==
  2

HistoryNames ==
  {<<"b","u","t","t","e","r">>,
   <<"B","u","t","t","e","r">>,
   <<"t","e","a">>,
   <<"j","a","m">>}

CurrentItemNames ==
  <<<<"B","r","e","a","d">>,
    <<"b","u","t","t","e","r">>,
    <<"t","o","r","t","i","l","l","a","s">>,
    <<"c","r","a","c","k","e","r","s">>>>

\* A long list, with the partner missing for more than eight pairings.
FullBasket ==
  <<[name |-> <<"b","r","e","a","d">>],
    [name |-> <<"p","a","s","t","a">>],
    [name |-> <<"c","h","i","p","s">>],
    [name |-> <<"c","e","r","e","a","l">>],
    [name |-> <<"e","g","g","s">>],
    [name |-> <<"l","e","t","t","u","c","e">>],
    [name |-> <<"t","o","r","t","i","l","l","a","s">>],
    [name |-> <<"r","i","c","e">>],
    [name |-> <<"c","o","f","f","e","e">>],
    [name |-> <<"A","v","o","c","a","d","o">>]>>

Histories ==
  UNION {[1..n -> {[name |-> h] : h \in HistoryNames}] : n \in 0..MaxHistory}

\* The items named by a set S of indices of CurrentItemNames, in index order.
RECURSIVE ItemsOf(_)
ItemsOf(S) ==
  IF S = {} THEN <<>>
  ELSE <<[name |-> CurrentItemNames[Least(S)]]>> \o ItemsOf(S \ {Least(S)})

CurrentLists ==
  {ItemsOf(S) : S \in {T \in SUBSET DOMAIN CurrentItemNames : Cardinality(T) <= MaxCurrent}}
    \cup {FullBasket}

MaxArguments ==
  {[omitted |-> TRUE, value |-> 0]}
    \cup {[omitted |-> FALSE, value |-> v] : v \in (0 - 1)..MaxRequested}

\* The most distinct names of a long history.
MaxDistinct ==
  22

DigitChars ==
  <<"0","1","2","3","4","5","6","7","8","9">>

\* The k-th name of a long history, as typed ("item 07") and as the list
\* stores it after capitalize ("Item 07").
ItemNumbered(k) ==
  <<"i","t","e","m"," ", DigitChars[(k \div 10) + 1], DigitChars[(k % 10) + 1]>>

ItemNumberedCapitalized(k) ==
  <<"I","t","e","m"," ", DigitChars[(k \div 10) + 1], DigitChars[(k % 10) + 1]>>

\* How often the k-th name was bought: twice each, or once, twice and three
\* times in turn.
TimesBought(profile, k) ==
  IF profile = "twice" THEN 2 ELSE 1 + (k % 3)

\* The r-th shopping round of d names: every name bought at least r times,
\* in the order of the names; the second round was added capitalized.
RECURSIVE ShoppingRound(_, _, _, _)
ShoppingRound(d, profile, r, k) ==
  IF k > d THEN <<>>
  ELSE (IF TimesBought(profile, k) >= r
          THEN <<[name |-> IF r = 2 THEN ItemNumberedCapitalized(k) ELSE ItemNumbered(k)]>>
          ELSE <<>>)
         \o ShoppingRound(d, profile, r, k + 1)

\* Histories of more names than the frequency source takes and of more
\* entries than the recency source looks at.
LongHistories ==
  {ShoppingRound(d, profile, 1, 1) \o ShoppingRound(d, profile, 2, 1)
     \o ShoppingRound(d, profile, 3, 1) :
       d \in (MaxDistinct - 2)..MaxDistinct, profile \in {"twice", "mixed"}}

LongCurrentLists ==
  {<<>>,
   <<[name |-> ItemNumberedCapitalized(1)]>>,
   <<[name |-> <<"B","r","e","a","d">>]>>}

\* With a long history: the default, or room for every suggestion.
LongMaxArguments ==
  {[omitted |-> TRUE, value |-> 0], [omitted |-> FALSE, value |-> 2 * MaxDistinct]}

(***************************************************************************)
(* Bounded inputs of the recipe parser                                     *)
(***************************************************************************)

\* The most lines of a recipe text drawn from RecipeLines.
MaxLines ==
  2

\* The most ingredients of a template that is not one of RECIPE_TEMPLATES.
MaxIngredients ==
  2

\* The most calls of the recipe functions in one session.
MaxCalls ==
  2

RecipeLines ==
  {<<"2"," ","c","u","p","s"," ","f","l","o","u","r">>,
   <<"3"," ","c","l","o","v","e","s"," ","o","f"," ","g","a","r","l","i","c">>,
   <<"I","n","s","t","r","u","c","t","i","o","n","s",":">>,
   <<"*"," ","S","T","E","P","S">>,
   <<"(","o","p","t","i","o","n","a","l",")">>,
   <<"3"," ",",">>,
   <<"f","l","o","u","r">>,
   <<"F","L","O","U","R">>,
   <<"U+2022"," ","c","o","n","s","t","r","u","c","t","o","r">>,
   <<>>}

\* "2 cups flour\n1/2 lb ground beef, minced\n- 3 cloves garlic"
ExampleRecipe ==
  <<"2"," ","c","u","p","s"," ","f","l","o","u","r","\n",
    "1","/","2"," ","l","b"," ","g","r","o","u","n","d"," ","b","e","e","f",",",
    " ","m","i","n","c","e","d","\n",
    "-"," ","3"," ","c","l","o","v","e","s"," ","g","a","r","l","i","c">>

\* lines.join('\n')
RECURSIVE JoinLines(_)
JoinLines(lines) ==
  IF lines = <<>> THEN <<>>
  ELSE IF Len(lines) = 1 THEN lines[1]
  ELSE lines[1] \o <<LineBreak>> \o JoinLines(Tail(lines))

RecipeTexts ==
  {JoinLines(lines) : lines \in UNION {[1..n -> RecipeLines] : n \in 0..MaxLines}}
    \cup {ExampleRecipe}

IngredientNames ==
  {<<"b","u","t","t","e","r">>,
   <<"B","u","t","t","e","r">>,
   <<"c","o","n","s","t","r","u","c","t","o","r">>}

Templates ==
  {RECIPE_TEMPLATES[t] : t \in DOMAIN RECIPE_TEMPLATES}
    \cup {[id |-> "custom", ingredients |-> ingredients] :
            ingredients \in UNION {[1..n -> IngredientNames] : n \in 0..MaxIngredients}}

(***************************************************************************)
(* Bounded inputs of the store                                             *)
(***************************************************************************)

\* The most identifiers generated in a session, for lists and items.
MaxUuids ==
  4

\* The most items passed to one addItems.
MaxBatch ==
  2

ListNames ==
  {<<"W","e","e","k","l","y">>}

\* Names as typed into the add-item form.
RawNames ==
  {<<" ","m","i","l","k">>, <<"E","g","g","s">>}

\* The items passed to addItems, as the recipe functions build them, with
\* issued identifiers generated before.
BatchOf(names, issued) ==
  [i \in DOMAIN names |->
     [id |-> uuidv4(issued + i),
      name |-> names[i],
      category |-> categorizeItem(names[i], <<>>),
      isChecked |-> FALSE]]

Batches ==
  UNION {[1..n -> RawNames] : n \in 0..MaxBatch}

\* The categories an item is reassigned to.
ReassignedCategories ==
  {"dairy", CATEGORIES_OTHER}

\* The most ADD_HISTORY actions dispatched on their own.
MaxAppended ==
  203

\* The name carried by the k-th ADD_HISTORY as typed (" entry 007"); the
\* history stores it trimmed and capitalized ("Entry 007").
TypedEntry(k) ==
  <<" ","e","n","t","r","y"," ",
    DigitChars[((k \div 100) % 10) + 1],
    DigitChars[((k \div 10) % 10) + 1],
    DigitChars[(k % 10) + 1]>>

\* The most documents added to Firestore in a session.
MaxDocs ==
  4

\* The most list documents at a time.
MaxLists ==
  1

\* The most item documents at a time.
MaxItems ==
  1

\* The farthest from 0 an itemCount may be when an action on items is called.
MaxCount ==
  1

\* The names typed into the add-item form of the Firestore application.
TypedNames ==
  {<<" ","m","i","l","k">>}

\* The names of the items a recipe passes to addItems.
TypedBatches ==
  UNION {[1..n -> TypedNames] : n \in 1..MaxBatch}

\* The most asynchronous actions awaiting a promise at a time.
MaxTasks ==
  2

\* The most store documents at a time.
MaxStores ==
  1

\* The most aisles of a store.
MaxAisles ==
  1

\* The most custom category documents at a time.
MaxCategories ==
  3

\* The last millisecond of the clock; the first is 1.
MaxClock ==
  2

\* The keywords typed into the category manager of the Firestore application.
TypedKeywordLists ==
  {<<<<"m","i","l","k">>>>}

\* The aisle names typed into the aisle editor.
AisleNames ==
  {<<"A","1">>, <<"B","2">>}

\* The identifiers generated so far: those of the lists, deleted ones too.
IssuedIds ==
  {uuidv4(k) : k \in 1..uuidCount}

(***************************************************************************)
(* The pure functions as state machines: the arguments of a call are       *)
(* drawn by Init, the step is the call, the result is what it returned.    *)
(***************************************************************************)

NoResult ==
  "none"

CatIdle ==
  /\ catPc = "idle"
  /\ itemName = <<>>
  /\ customCategories = <<>>
  /\ catResult = NoResult
  /\ keyOrder = <<>>

SugIdle ==
  /\ sugPc = "idle"
  /\ history = <<>>
  /\ currentItems = <<>>
  /\ maxSuggestions = [omitted |-> TRUE, value |-> 0]
  /\ suggestions = <<>>

NoTemplate ==
  [id |-> "none", ingredients |-> <<>>]

RecIdle ==
  /\ recPc = "idle"
  /\ recipeText = <<>>
  /\ template = NoTemplate
  /\ recipeItems = <<>>
  /\ uuidCount = 0
  /\ earlierIds = {}
  /\ recCalls = 0

StoreIdle ==
  /\ state = initialState
  /\ storage = emptyStorage
  /\ appended = 0

\* No provider is mounted for a call of a pure function.
NotMounted ==
  "none"

FireIdle ==
  /\ db = emptyDb
  /\ view = initialView
  /\ tasks = <<>>
  /\ clock = 1

CallCategorizeItem ==
  /\ catPc = "call categorizeItem"
  /\ catResult' = categorizeItem(itemName, customCategories)
  /\ catPc' = "categorizeItem"
  /\ UNCHANGED <<itemName, customCategories, keyOrder>>
  /\ UNCHANGED sugVars
  /\ UNCHANGED recVars
  /\ UNCHANGED shopVars

CallGetAllCategoryKeys ==
  /\ catPc = "call getAllCategoryKeys"
  /\ keyOrder' = getAllCategoryKeys(customCategories)
  /\ catPc' = "getAllCategoryKeys"
  /\ UNCHANGED <<itemName, customCategories, catResult>>
  /\ UNCHANGED sugVars
  /\ UNCHANGED recVars
  /\ UNCHANGED shopVars

CatInit ==
  /\ \/ /\ catPc = "call categorizeItem"
        /\ itemName \in ItemNames
        /\ customCategories \in CustomLists
     \/ /\ catPc = "call getAllCategoryKeys"
        /\ itemName = <<>>
        /\ customCategories \in CustomLists
  /\ catResult = NoResult
  /\ keyOrder = <<>>
  /\ SugIdle
  /\ RecIdle
  /\ StoreIdle
  /\ FireIdle
  /\ provider = NotMounted

CatNext ==
  \/ CallCategorizeItem
  \/ CallGetAllCategoryKeys

SpecCat ==
  CatInit /\ [][CatNext]_vars

CallGetSuggestions ==
  /\ sugPc = "call getSuggestions"
  /\ suggestions' = getSuggestions(history, currentItems, maxSuggestions)
  /\ sugPc' = "getSuggestions"
  /\ UNCHANGED <<history, currentItems, maxSuggestions>>
  /\ UNCHANGED catVars
  /\ UNCHANGED recVars
  /\ UNCHANGED shopVars

SugInit ==
  /\ sugPc = "call getSuggestions"
  /\ \/ /\ history \in Histories
        /\ currentItems \in CurrentLists
        /\ maxSuggestions \in MaxArguments
     \/ /\ history \in LongHistories
        /\ currentItems \in LongCurrentLists
        /\ maxSuggestions \in LongMaxArguments
  /\ suggestions = <<>>
  /\ CatIdle
  /\ RecIdle
  /\ StoreIdle
  /\ FireIdle
  /\ provider = NotMounted

SugNext ==
  CallGetSuggestions

SpecSug ==
  SugInit /\ [][SugNext]_vars

\* The caller of parseRecipeText (or recipeTemplateToItems) passes the text.
CallParseRecipeText ==
  /\ recPc = "idle"
  /\ recCalls < MaxCalls
  /\ \E text \in RecipeTexts :
       /\ recipeText' = text
       /\ recipeItems' = parseRecipeText(text, uuidCount)
  /\ uuidCount' = uuidCount + Len(recipeItems')
  /\ recCalls' = recCalls + 1
  /\ recPc' = "parseRecipeText"
  /\ UNCHANGED <<template, earlierIds>>
  /\ UNCHANGED catVars
  /\ UNCHANGED sugVars
  /\ UNCHANGED shopVars

CallRecipeTemplateToItems ==
  /\ recPc = "idle"
  /\ recCalls < MaxCalls
  /\ \E t \in Templates :
       /\ template' = t
       /\ recipeItems' = recipeTemplateToItems(t, uuidCount)
  /\ uuidCount' = uuidCount + Len(recipeItems')
  /\ recCalls' = recCalls + 1
  /\ recPc' = "recipeTemplateToItems"
  /\ UNCHANGED <<recipeText, earlierIds>>
  /\ UNCHANGED catVars
  /\ UNCHANGED sugVars
  /\ UNCHANGED shopVars

\* The caller has taken the returned items; their identifiers stay in use.
ReturnItems ==
  /\ recPc # "idle"
  /\ earlierIds' = earlierIds \cup {recipeItems[i].id : i \in DOMAIN recipeItems}
  /\ recipeText' = <<>>
  /\ template' = NoTemplate
  /\ recipeItems' = <<>>
  /\ recPc' = "idle"
  /\ UNCHANGED <<uuidCount, recCalls>>
  /\ UNCHANGED catVars
  /\ UNCHANGED sugVars
  /\ UNCHANGED shopVars

RecInit ==
  /\ RecIdle
  /\ CatIdle
  /\ SugIdle
  /\ StoreIdle
  /\ FireIdle
  /\ provider = NotMounted

RecNext ==
  \/ CallParseRecipeText
  \/ CallRecipeTemplateToItems
  \/ ReturnItems

SpecRecipe ==
  RecInit /\ [][RecNext]_vars

\* The variables of the recipe functions other than the identifier count.
recCallVars ==
  <<recPc, recipeText, template, recipeItems, earlierIds, recCalls>>

\* What a local action leaves alone.
localRest ==
  <<catVars, sugVars, recCallVars, provider, appended, fireVars>>

\* actions.createList(name)
CreateList ==
  /\ provider = "local"
  /\ uuidCount < MaxUuids
  /\ \E name \in ListNames :
       state' = reducer(state, [type |-> "CREATE_LIST", payload |-> [name |-> name]],
                        uuidCount)
  /\ storage' = Persisted(storage, state')
  /\ uuidCount' = uuidCount + 1
  /\ UNCHANGED localRest

\* actions.deleteList(id)
DeleteList ==
  /\ provider = "local"
  /\ \E id \in IssuedIds :
       /\ \E l \in DOMAIN state.lists : state.lists[l].id = id
       /\ state' = reducer(state, [type |-> "DELETE_LIST", payload |-> id], uuidCount)
  /\ storage' = Persisted(storage, state')
  /\ UNCHANGED <<uuidCount, localRest>>

\* actions.selectList(id)
SelectList ==
  /\ provider = "local"
  /\ \E l \in DOMAIN state.lists :
       state' = reducer(state, [type |-> "SELECT_LIST", payload |-> state.lists[l].id],
                        uuidCount)
  /\ storage' = Persisted(storage, state')
  /\ UNCHANGED <<uuidCount, localRest>>

\* actions.addItem(listId, name): ADD_ITEM, then ADD_HISTORY.
AddItem ==
  /\ provider = "local"
  /\ uuidCount < MaxUuids
  /\ \E listId \in IssuedIds : \E name \in RawNames :
       state' =
         reducer(reducer(state,
                         [type |-> "ADD_ITEM",
                          payload |-> [listId |-> listId, name |-> name]],
                         uuidCount),
                 [type |-> "ADD_HISTORY", payload |-> [name |-> name]],
                 uuidCount + 1)
  /\ storage' = Persisted(storage, state')
  /\ uuidCount' = uuidCount + 1
  /\ UNCHANGED localRest

\* actions.addItems(listId, items): ADD_ITEMS, then ADD_HISTORY for each item.
AddItems ==
  /\ provider = "local"
  /\ \E listId \in IssuedIds : \E names \in Batches :
       /\ uuidCount + Len(names) <= MaxUuids
       /\ LET items == BatchOf(names, uuidCount)
          IN  state' =
                AddHistoryOfEach(
                  reducer(state,
                          [type |-> "ADD_ITEMS",
                           payload |-> [listId |-> listId, items |-> items]],
                          uuidCount + Len(names)),
                  items)
       /\ uuidCount' = uuidCount + Len(names)
  /\ storage' = Persisted(storage, state')
  /\ UNCHANGED localRest

\* actions.toggleItem(listId, itemId)
ToggleItem ==
  /\ provider = "local"
  /\ \E listId \in IssuedIds : \E itemId \in IssuedIds :
       state' = reducer(state,
                        [type |-> "TOGGLE_ITEM",
                         payload |-> [listId |-> listId, itemId |-> itemId]],
                        uuidCount)
  /\ storage' = Persisted(storage, state')
  /\ UNCHANGED <<uuidCount, localRest>>

\* actions.removeItem(listId, itemId)
RemoveItem ==
  /\ provider = "local"
  /\ \E listId \in IssuedIds : \E itemId \in IssuedIds :
       state' = reducer(state,
                        [type |-> "REMOVE_ITEM",
                         payload |-> [listId |-> listId, itemId |-> itemId]],
                        uuidCount)
  /\ storage' = Persisted(storage, state')
  /\ UNCHANGED <<uuidCount, localRest>>

\* actions.updateItem(listId, itemId, {category}): the category badge of the
\* item row reassigns the category.
UpdateItem ==
  /\ provider = "local"
  /\ \E listId \in IssuedIds : \E itemId \in IssuedIds : \E key \in ReassignedCategories :
       state' = reducer(state,
                        [type |-> "UPDATE_ITEM",
                         payload |-> [listId |-> listId, itemId |-> itemId,
                                      updates |-> [category |-> key]]],
                        uuidCount)
  /\ storage' = Persisted(storage, state')
  /\ UNCHANGED <<uuidCount, localRest>>

\* actions.clearChecked(listId)
ClearChecked ==
  /\ provider = "local"
  /\ \E listId \in IssuedIds :
       state' = reducer(state, [type |-> "CLEAR_CHECKED", payload |-> [listId |-> listId]],
                        uuidCount)
  /\ storage' = Persisted(storage, state')
  /\ UNCHANGED <<uuidCount, localRest>>

\* The page is loaded again: the provider is mounted on the initial state,
\* the mount effect loads what localStorage holds, the effects persist it.
Reload ==
  /\ provider = "local"
  /\ state' = Mounted(storage)
  /\ storage' = Persisted(storage, state')
  /\ UNCHANGED <<uuidCount, localRest>>

StoreInit ==
  /\ StoreIdle
  /\ CatIdle
  /\ SugIdle
  /\ RecIdle
  /\ FireIdle
  /\ provider = "local"

StoreNext ==
  \/ CreateList
  \/ DeleteList
  \/ SelectList
  \/ AddItem
  \/ AddItems

SpecStore ==
  StoreInit /\ [][StoreNext]_vars

\* The local provider with every action of its context value.
LocalNext ==
  \/ CreateList
  \/ DeleteList
  \/ SelectList
  \/ AddItem
  \/ AddItems
  \/ ToggleItem
  \/ RemoveItem
  \/ UpdateItem
  \/ ClearChecked
  \/ Reload

SpecLocal ==
  StoreInit /\ [][LocalNext]_vars

\* ADD_HISTORY dispatched on its own, with the k-th name typed.
AddHistory ==
  /\ provider = "local"
  /\ appended < MaxAppended
  /\ state' = reducer(state,
                      [type |-> "ADD_HISTORY",
                       payload |-> [name |-> TypedEntry(appended + 1)]],
                      uuidCount)
  /\ storage' = Persisted(storage, state')
  /\ appended' = appended + 1
  /\ UNCHANGED <<uuidCount, catVars, sugVars, recCallVars, provider, fireVars>>

HistoryNext ==
  AddHistory

SpecHistory ==
  StoreInit /\ [][HistoryNext]_vars

(***************************************************************************)
(* The Firestore provider as a state machine. An asynchronous action is a  *)
(* task from its call to its last step; one step runs from a call or a     *)
(* settled promise to the next write, and tasks interleave between steps.  *)
(* A snapshot listener is called with what its query gives at that moment. *)
(***************************************************************************)

\* What an action of the Firestore provider leaves alone.
fireRest ==
  <<catVars, sugVars, recCallVars, state, storage, appended, provider>>

\* The user is signed in and the application shows the provider's state.
SignedIn ==
  /\ provider = "firestore"
  /\ view.userId # Null

\* No itemCount is farther from 0 than MaxCount.
CountInRange ==
  \A l \in DOMAIN db.lists :
    /\ db.lists[l].itemCount <= MaxCount
    /\ db.lists[l].itemCount >= 0 - MaxCount

\* The identifier of the document added next.
NextId ==
  autoId(uuidCount + 1)

\* The task at index i has made its last step.
Finished(i) ==
  tasks' = Without(tasks, i)

\* The task at index i goes on to its step pc.
Continued(i, pc) ==
  tasks' = [tasks EXCEPT ![i].pc = pc]

\* createListAction: fsCreateList adds the list document.
createListAction ==
  /\ SignedIn
  /\ uuidCount < MaxDocs
  /\ Len(db.lists) < MaxLists
  /\ Len(tasks) < MaxTasks
  /\ \E name \in ListNames : db' = fsCreateList(db, NextId, name)
  /\ tasks' = Append(tasks, [op |-> "createList", pc |-> "select", listId |-> NextId])
  /\ uuidCount' = uuidCount + 1
  /\ UNCHANGED <<view, clock, fireRest>>

\* createListAction, after await fsCreateList: setActiveListId(newId).
createListAction_Select ==
  /\ provider = "firestore"
  /\ \E i \in DOMAIN tasks :
       /\ tasks[i].op = "createList"
       /\ view' = WithActiveListId(view, tasks[i].listId)
       /\ Finished(i)
  /\ UNCHANGED <<db, clock, uuidCount, fireRest>>

\* deleteListAction(id) of a list shown by the list selector: fsDeleteList
\* subscribes to the items of the list. The callback keeps the activeListId
\* and the lists of the render it was created in.
deleteListAction ==
  /\ SignedIn
  /\ Len(tasks) < MaxTasks
  /\ \E l \in DOMAIN view.lists :
       tasks' = Append(tasks, [op |-> "deleteList", pc |-> "read",
                               listId |-> view.lists[l].id,
                               snapshotIds |-> {},
                               activeListId |-> view.activeListId,
                               lists |-> view.lists])
  /\ UNCHANGED <<db, view, clock, uuidCount, fireRest>>

\* fsDeleteList: the snapshot of the item documents arrives.
deleteListAction_Read ==
  /\ provider = "firestore"
  /\ \E i \in DOMAIN tasks :
       /\ tasks[i].op = "deleteList"
       /\ tasks[i].pc = "read"
       /\ tasks' = [tasks EXCEPT ![i].pc = "commit",
                                 ![i].snapshotIds = DocIds(ItemsUnder(db, tasks[i].listId))]
  /\ UNCHANGED <<db, view, clock, uuidCount, fireRest>>

\* fsDeleteList: the batch is committed.
deleteListAction_Commit ==
  /\ provider = "firestore"
  /\ \E i \in DOMAIN tasks :
       /\ tasks[i].op = "deleteList"
       /\ tasks[i].pc = "commit"
       /\ db' = CommitDeleteList(db, tasks[i].listId, tasks[i].snapshotIds)
       /\ Continued(i, "return")
  /\ UNCHANGED <<view, clock, uuidCount, fireRest>>

\* deleteListAction, after await fsDeleteList: when the deleted list was the
\* active one, the first of the remaining lists is selected.
deleteListAction_Return ==
  /\ provider = "firestore"
  /\ \E i \in DOMAIN tasks :
       /\ tasks[i].op = "deleteList"
       /\ tasks[i].pc = "return"
       /\ LET remaining == DocsExcept(tasks[i].lists, {tasks[i].listId})
          IN  view' =
                IF tasks[i].activeListId = tasks[i].listId
                  THEN WithActiveListId(view, IF remaining = <<>> THEN Null
                                              ELSE remaining[1].id)
                  ELSE view
       /\ Finished(i)
  /\ UNCHANGED <<db, clock, uuidCount, fireRest>>

\* selectListAction(id) of a list shown by the list selector.
selectListAction ==
  /\ SignedIn
  /\ \E l \in DOMAIN view.lists :
       view' = WithActiveListId(view, view.lists[l].id)
  /\ UNCHANGED <<db, tasks, clock, uuidCount, fireRest>>

\* The listener of subscribeLists is called.
ListsSnapshot ==
  /\ SignedIn
  /\ view.lists # db.lists
  /\ view' = OnLists(view, db.lists)
  /\ UNCHANGED <<db, tasks, clock, uuidCount, fireRest>>

\* The listener of subscribeItems for the active list is called.
ItemsSnapshot ==
  /\ SignedIn
  /\ view.activeListId # Null
  /\ view.activeItems # ItemsUnder(db, view.activeListId)
  /\ view' = [view EXCEPT !.activeItems = ItemsUnder(db, view.activeListId)]
  /\ UNCHANGED <<db, tasks, clock, uuidCount, fireRest>>

\* The listener of subscribeCustomCategories is called.
CategoriesSnapshot ==
  /\ SignedIn
  /\ view.customCategories # OrderedByOrder(db.customCategories)
  /\ view' = [view EXCEPT !.customCategories = OrderedByOrder(db.customCategories)]
  /\ UNCHANGED <<db, tasks, clock, uuidCount, fireRest>>

\* The listener of subscribeStores is called.
StoresSnapshot ==
  /\ SignedIn
  /\ view.stores # OrderedByOrder(db.stores)
  /\ view' = [view EXCEPT !.stores = OrderedByOrder(db.stores)]
  /\ UNCHANGED <<db, tasks, clock, uuidCount, fireRest>>

\* The user signs out: every effect of the provider runs without a user.
SignOut ==
  /\ SignedIn
  /\ view' = SignedOut(view)
  /\ UNCHANGED <<db, tasks, clock, uuidCount, fireRest>>

\* The user signs in again: the effects subscribe, the snapshots follow.
SignIn ==
  /\ provider = "firestore"
  /\ view.userId = Null
  /\ view' = [view EXCEPT !.userId = UserId]
  /\ UNCHANGED <<db, tasks, clock, uuidCount, fireRest>>

\* handleAddItem(name, storeId) of the add-item form, for the list shown:
\* addItemAction prepares the item, fsAddItem adds its document.
addItemAction ==
  /\ SignedIn
  /\ HasActiveList(view)
  /\ uuidCount < MaxDocs
  /\ Len(db.items) < MaxItems
  /\ CountInRange
  /\ Len(tasks) < MaxTasks
  /\ \E rawName \in TypedNames : \E storeId \in {Null} \cup DocIds(view.stores) :
       LET name == capitalize(Trim(rawName))
           item == [name |-> name,
                    category |-> categorizeItem(name, view.customCategories),
                    isChecked |-> FALSE,
                    store |-> storeId,
                    aisle |-> Null]
       IN  /\ db' = AddItemDoc(db, view.activeListId, NextId, item)
           /\ tasks' = Append(tasks, [op |-> "addItem", pc |-> "count",
                                      listId |-> view.activeListId, name |-> name])
  /\ uuidCount' = uuidCount + 1
  /\ UNCHANGED <<view, clock, fireRest>>

\* fsAddItem, after await addDoc: itemCount is incremented.
addItemAction_Count ==
  /\ provider = "firestore"
  /\ \E i \in DOMAIN tasks :
       /\ tasks[i].op = "addItem"
       /\ tasks[i].pc = "count"
       /\ IF ListExists(db, tasks[i].listId)
            THEN /\ db' = IncrementItemCount(db, tasks[i].listId, 1)
                 /\ Continued(i, "history")
            ELSE /\ db' = db
                 /\ Finished(i)
  /\ UNCHANGED <<view, clock, uuidCount, fireRest>>

\* addItemAction, after await fsAddItem: addHistoryEntry.
addItemAction_History ==
  /\ provider = "firestore"
  /\ \E i \in DOMAIN tasks :
       /\ tasks[i].op = "addItem"
       /\ tasks[i].pc = "history"
       /\ db' = addHistoryEntry(db, tasks[i].name)
       /\ Finished(i)
  /\ UNCHANGED <<view, clock, uuidCount, fireRest>>

\* handleAddItems(items) of the recipe panel, for the list shown:
\* addItemsAction prepares the items, fsAddItems commits its batch.
addItemsAction ==
  /\ SignedIn
  /\ HasActiveList(view)
  /\ Len(tasks) < MaxTasks
  /\ ListExists(db, view.activeListId)
  /\ CountInRange
  /\ \E names \in TypedBatches :
       /\ uuidCount + Len(names) <= MaxDocs
       /\ Len(db.items) + Len(names) <= MaxItems
       /\ LET items == BatchOf(names, uuidCount)
              prepared ==
                [i \in DOMAIN items |->
                   LET name == capitalize(Trim(items[i].name))
                   IN  [name |-> name,
                        category |-> items[i].category,
                        isChecked |-> FALSE,
                        store |-> Null,
                        aisle |-> Null]]
          IN  /\ db' = fsAddItems(db, view.activeListId, uuidCount, prepared)
              /\ tasks' = Append(tasks,
                                 [op |-> "addItems", pc |-> "history",
                                  names |-> [i \in DOMAIN prepared |-> prepared[i].name]])
       /\ uuidCount' = uuidCount + Len(names)
  /\ UNCHANGED <<view, clock, fireRest>>

\* addItemsAction, after await fsAddItems: addHistoryEntry, item by item.
addItemsAction_History ==
  /\ provider = "firestore"
  /\ \E i \in DOMAIN tasks :
       /\ tasks[i].op = "addItems"
       /\ db' = addHistoryEntry(db, Head(tasks[i].names))
       /\ IF Len(tasks[i].names) = 1
            THEN Finished(i)
            ELSE tasks' = [tasks EXCEPT ![i].names = Tail(@)]
  /\ UNCHANGED <<view, clock, uuidCount, fireRest>>

\* handleToggleItem(itemId) of a row of the list shown: toggleItemAction
\* finds the item among activeItems and writes the negation of its isChecked.
toggleItemAction ==
  /\ SignedIn
  /\ HasActiveList(view)
  /\ CountInRange
  /\ Len(tasks) < MaxTasks
  /\ \E r \in DOMAIN view.activeItems :
       LET item == view.activeItems[r]
           nowChecked == ~item.isChecked
       IN  /\ ItemExists(db, view.activeListId, item.id)
           /\ db' = fsUpdateItem(db, view.activeListId, item.id,
                                 [isChecked |-> nowChecked])
           /\ tasks' = Append(tasks, [op |-> "toggleItem", pc |-> "count",
                                      listId |-> view.activeListId,
                                      nowChecked |-> nowChecked])
  /\ UNCHANGED <<view, clock, uuidCount, fireRest>>

\* toggleItemAction, after await fsUpdateItem: itemCount is adjusted.
toggleItemAction_Count ==
  /\ provider = "firestore"
  /\ \E i \in DOMAIN tasks :
       /\ tasks[i].op = "toggleItem"
       /\ db' = IF ListExists(db, tasks[i].listId)
                  THEN IncrementItemCount(db, tasks[i].listId,
                                          IF tasks[i].nowChecked THEN 0 - 1 ELSE 1)
                  ELSE db
       /\ Finished(i)
  /\ UNCHANGED <<view, clock, uuidCount, fireRest>>

\* handleRemoveItem(itemId) of a row of the list shown: removeItemAction finds
\* the item among activeItems, fsRemoveItem deletes its document.
removeItemAction ==
  /\ SignedIn
  /\ HasActiveList(view)
  /\ CountInRange
  /\ Len(tasks) < MaxTasks
  /\ \E r \in DOMAIN view.activeItems :
       LET item == view.activeItems[r]
       IN  /\ db' = DeleteItemDoc(db, view.activeListId, item.id)
           /\ tasks' = Append(tasks, [op |-> "removeItem", pc |-> "count",
                                      listId |-> view.activeListId,
                                      unchecked |-> ~item.isChecked])
  /\ UNCHANGED <<view, clock, uuidCount, fireRest>>

\* fsRemoveItem, after await deleteDoc: itemCount is decremented.
removeItemAction_Count ==
  /\ provider = "firestore"
  /\ \E i \in DOMAIN tasks :
       /\ tasks[i].op = "removeItem"
       /\ tasks[i].pc = "count"
       /\ IF ListExists(db, tasks[i].listId)
            THEN /\ db' = IncrementItemCount(db, tasks[i].listId, 0 - 1)
                 /\ IF tasks[i].unchecked
                      THEN Continued(i, "unchecked")
                      ELSE Finished(i)
            ELSE /\ db' = db
                 /\ Finished(i)
  /\ UNCHANGED <<view, clock, uuidCount, fireRest>>

\* removeItemAction, after await fsRemoveItem, for an item that was
\* unchecked: itemCount is decremented.
removeItemAction_Unchecked ==
  /\ provider = "firestore"
  /\ \E i \in DOMAIN tasks :
       /\ tasks[i].op = "removeItem"
       /\ tasks[i].pc = "unchecked"
       /\ db' = IF ListExists(db, tasks[i].listId)
                  THEN IncrementItemCount(db, tasks[i].listId, 0 - 1)
                  ELSE db
       /\ Finished(i)
  /\ UNCHANGED <<view, clock, uuidCount, fireRest>>

\* handleClearChecked of the list shown: clearCheckedAction collects the
\* checked items of activeItems, clearCheckedItems commits its batch.
clearCheckedAction ==
  /\ SignedIn
  /\ HasActiveList(view)
  /\ CountInRange
  /\ ListExists(db, view.activeListId)
  /\ LET checkedIds == {view.activeItems[r].id : r \in
                          {q \in DOMAIN view.activeItems : view.activeItems[q].isChecked}}
     IN  /\ checkedIds # {}
         /\ db' = clearCheckedItems(db, view.activeListId, checkedIds)
  /\ UNCHANGED <<view, tasks, clock, uuidCount, fireRest>>

\* handleSelectCategory(key) of a row of the list shown, for another
\* category than the item's: updateItemAction writes {category: key}.
handleSelectCategory ==
  /\ SignedIn
  /\ HasActiveList(view)
  /\ \E r \in DOMAIN view.activeItems : \E key \in ReassignedCategories :
       LET item == view.activeItems[r]
       IN  /\ key # item.category
           /\ ItemExists(db, view.activeListId, item.id)
           /\ db' = fsUpdateItem(db, view.activeListId, item.id, [category |-> key])
  /\ UNCHANGED <<view, tasks, clock, uuidCount, fireRest>>

\* handleSelectStore(storeId) of a row of the list shown, for another store
\* than the item's: onUpdateStore writes {store: storeId}; for an item with
\* an aisle, onUpdateAisle then writes {aisle: null}.
handleSelectStore ==
  /\ SignedIn
  /\ HasActiveList(view)
  /\ Len(tasks) < MaxTasks
  /\ \E r \in DOMAIN view.activeItems : \E storeId \in {Null} \cup DocIds(view.stores) :
       LET item == view.activeItems[r]
       IN  /\ storeId # item.store
           /\ db' = fsUpdateItem(db, view.activeListId, item.id, [store |-> storeId])
           /\ tasks' = IF item.aisle # Null
                         THEN Append(tasks, [op |-> "selectStore", pc |-> "aisle",
                                             listId |-> view.activeListId,
                                             itemId |-> item.id])
                         ELSE tasks
  /\ UNCHANGED <<view, clock, uuidCount, fireRest>>

\* handleSelectStore, the second write: {aisle: null}.
handleSelectStore_Aisle ==
  /\ provider = "firestore"
  /\ \E i \in DOMAIN tasks :
       /\ tasks[i].op = "selectStore"
       /\ db' = fsUpdateItem(db, tasks[i].listId, tasks[i].itemId, [aisle |-> Null])
       /\ Finished(i)
  /\ UNCHANGED <<view, clock, uuidCount, fireRest>>

\* The aisles of the store with the id among the stores of the view.
StoreAisles(stores, storeId) ==
  IF storeId \in DocIds(stores) THEN stores[IndexOfId(stores, storeId)].aisles ELSE <<>>

\* handleSelectAisle(aisleName) of a row of the list shown, whose aisle
\* picker offers no aisle and the aisles of the item's store.
handleSelectAisle ==
  /\ SignedIn
  /\ HasActiveList(view)
  /\ \E r \in DOMAIN view.activeItems :
       LET item == view.activeItems[r]
           storeAisles == StoreAisles(view.stores, item.store)
       IN  /\ storeAisles # <<>>
           /\ \E aisleName \in {Null} \cup {storeAisles[a] : a \in DOMAIN storeAisles} :
                /\ aisleName # item.aisle
                /\ ItemExists(db, view.activeListId, item.id)
                /\ db' = fsUpdateItem(db, view.activeListId, item.id,
                                      [aisle |-> aisleName])
  /\ UNCHANGED <<view, tasks, clock, uuidCount, fireRest>>

\* addStoreAction, called by the store manager (shown with a list).
addStoreAction ==
  /\ SignedIn
  /\ HasActiveList(view)
  /\ uuidCount < MaxDocs
  /\ Len(db.stores) < MaxStores
  /\ db' = createStore(db, NextId, [aisles |-> <<>>, order |-> Len(view.stores)])
  /\ uuidCount' = uuidCount + 1
  /\ UNCHANGED <<view, tasks, clock, fireRest>>

\* What the aisle editor holds after one edit of the aisles it was opened
\* with: an aisle added (handleAdd), deleted (handleDelete) or renamed
\* (handleSaveRename).
EditedAisles(aisles) ==
  {Append(aisles, a) :
     a \in {b \in AisleNames :
              \A k \in DOMAIN aisles : ToLowerCase(aisles[k]) # ToLowerCase(b)}}
    \cup {Without(aisles, k) : k \in DOMAIN aisles}
    \cup {[aisles EXCEPT ![k] = a] : k \in DOMAIN aisles, a \in AisleNames}

\* handleSaveAisles(storeId, aisles), called by the aisle editor of a store:
\* updateStoreAction writes {aisles}.
handleSaveAisles ==
  /\ SignedIn
  /\ HasActiveList(view)
  /\ \E s \in DOMAIN view.stores : \E aisles \in EditedAisles(view.stores[s].aisles) :
       /\ Len(aisles) <= MaxAisles
       /\ view.stores[s].id \in DocIds(db.stores)
       /\ db' = updateStore(db, view.stores[s].id, [aisles |-> aisles])
  /\ UNCHANGED <<view, tasks, clock, uuidCount, fireRest>>

\* deleteStoreAction(id), called by the store manager.
deleteStoreAction ==
  /\ SignedIn
  /\ HasActiveList(view)
  /\ \E s \in DOMAIN view.stores : db' = deleteStore(db, view.stores[s].id)
  /\ UNCHANGED <<view, tasks, clock, uuidCount, fireRest>>

\* `custom_${Date.now()}`
CustomKeyAt(now) ==
  CustomKeys[now]

\* addCustomCategoryAction, called by the category manager (shown with a
\* list): the key is made of the clock, the order is the number of custom
\* categories of the view.
addCustomCategoryAction ==
  /\ SignedIn
  /\ HasActiveList(view)
  /\ uuidCount < MaxDocs
  /\ Len(db.customCategories) < MaxCategories
  /\ \E keywords \in TypedKeywordLists :
       db' = createCustomCategory(db, NextId,
                                  [key |-> CustomKeyAt(clock),
                                   keywords |-> keywords,
                                   order |-> Len(view.customCategories)])
  /\ uuidCount' = uuidCount + 1
  /\ UNCHANGED <<view, tasks, clock, fireRest>>

\* deleteCustomCategoryAction(id), called by the category manager.
deleteCustomCategoryAction ==
  /\ SignedIn
  /\ HasActiveList(view)
  /\ \E c \in DOMAIN view.customCategories :
       db' = deleteCustomCategory(db, view.customCategories[c].id)
  /\ UNCHANGED <<view, tasks, clock, uuidCount, fireRest>>

\* The array with the elements at index and index + 1 exchanged.
Swapped(arr, index) ==
  [arr EXCEPT ![index] = arr[index + 1], ![index + 1] = arr[index]]

\* handleMoveUp / handleMoveDown of the category manager:
\* reorderCustomCategoriesAction sets the reordered array at once and
\* saveCustomCategoryOrder commits its batch.
reorderCustomCategoriesAction ==
  /\ SignedIn
  /\ HasActiveList(view)
  /\ \E index \in 1..(Len(view.customCategories) - 1) :
       LET reordered == Swapped(view.customCategories, index)
       IN  /\ view' = [view EXCEPT !.customCategories = reordered]
           /\ db' = IF DocIds(reordered) \subseteq DocIds(db.customCategories)
                      THEN saveCustomCategoryOrder(db, reordered)
                      ELSE db
  /\ UNCHANGED <<tasks, clock, uuidCount, fireRest>>

\* A millisecond passes.
Tick ==
  /\ provider = "firestore"
  /\ clock < MaxClock
  /\ clock' = clock + 1
  /\ UNCHANGED <<db, view, tasks, uuidCount, fireRest>>

\* The provider mounted for a signed-in user with no documents.
FireInit ==
  /\ StoreIdle
  /\ CatIdle
  /\ SugIdle
  /\ RecIdle
  /\ provider = "firestore"
  /\ db = emptyDb
  /\ view = [initialView EXCEPT !.userId = UserId]
  /\ tasks = <<>>
  /\ clock = 1

\* The provider mounted for a signed-in user who has created one list in an
\* earlier session, after the first snapshot of the lists (which selects it).
FireListInit ==
  /\ StoreIdle
  /\ CatIdle
  /\ SugIdle
  /\ recPc = "idle"
  /\ recipeText = <<>>
  /\ template = NoTemplate
  /\ recipeItems = <<>>
  /\ uuidCount = 1
  /\ earlierIds = {}
  /\ recCalls = 0
  /\ provider = "firestore"
  /\ \E name \in ListNames : db = fsCreateList(emptyDb, autoId(1), name)
  /\ view = OnLists([initialView EXCEPT !.userId = UserId], db.lists)
  /\ tasks = <<>>
  /\ clock = 1

\* Lists: creation, deletion, selection, sign-out.
FireListsNext ==
  \/ createListAction
  \/ createListAction_Select
  \/ deleteListAction
  \/ deleteListAction_Read
  \/ deleteListAction_Commit
  \/ deleteListAction_Return
  \/ selectListAction
  \/ ListsSnapshot
  \/ SignOut
  \/ SignIn

SpecFireLists ==
  FireInit /\ [][FireListsNext]_vars

\* The items of a list and its itemCount.
FireItemsNext ==
  \/ ItemsSnapshot
  \/ addItemAction
  \/ addItemAction_Count
  \/ addItemAction_History
  \/ addItemsAction
  \/ addItemsAction_History
  \/ toggleItemAction
  \/ toggleItemAction_Count
  \/ removeItemAction
  \/ removeItemAction_Count
  \/ removeItemAction_Unchecked
  \/ clearCheckedAction

SpecFireItems ==
  FireListInit /\ [][FireItemsNext]_vars

\* The deletion of a list while items are added to it.
FireDeleteNext ==
  \/ ListsSnapshot
  \/ ItemsSnapshot
  \/ addItemAction
  \/ addItemAction_Count
  \/ addItemAction_History
  \/ addItemsAction
  \/ addItemsAction_History
  \/ deleteListAction
  \/ deleteListAction_Read
  \/ deleteListAction_Commit
  \/ deleteListAction_Return

SpecFireDelete ==
  FireListInit /\ [][FireDeleteNext]_vars

\* Stores, aisles and the items assigned to them.
FireStoresNext ==
  \/ ItemsSnapshot
  \/ StoresSnapshot
  \/ addItemAction
  \/ addItemAction_Count
  \/ addItemAction_History
  \/ addStoreAction
  \/ handleSaveAisles
  \/ deleteStoreAction
  \/ handleSelectStore
  \/ handleSelectStore_Aisle
  \/ handleSelectAisle

SpecFireStores ==
  FireListInit /\ [][FireStoresNext]_vars

\* Custom categories.
FireCategoriesNext ==
  \/ CategoriesSnapshot
  \/ addCustomCategoryAction
  \/ deleteCustomCategoryAction
  \/ reorderCustomCategoriesAction
  \/ Tick

SpecFireCategories ==
  FireListInit /\ [][FireCategoriesNext]_vars


(***************************************************************************)
(* Vocabulary of the properties                                            *)
(***************************************************************************)

\* The item name as matched: lowercased and trimmed.
Normalized(name) ==
  Trim(ToLowerCase(name))

IsMultiWord(kw) ==
  Includes(kw, <<" ">>)

ExactMatch(n, kw) ==
  n = kw

PhraseMatch(n, kw) ==
  IsMultiWord(kw) /\ Includes(n, kw)

WordMatch(n, kw) ==
  LET words == SplitWhiteSpace(n)
  IN  \E w \in DOMAIN words : words[w] = kw

\* The keywords of custom category c, lowercased.
LoweredKeywords(c) ==
  {ToLowerCase(customCategories[c].keywords[k]) :
     k \in DOMAIN customCategories[c].keywords}

\* The custom categories with a keyword equal to the name.
ExactCats ==
  LET n == Normalized(itemName)
  IN  {c \in DOMAIN customCategories : \E kw \in LoweredKeywords(c) : ExactMatch(n, kw)}

\* The custom categories with a multi-word keyword the name contains.
PhraseCats ==
  LET n == Normalized(itemName)
  IN  {c \in DOMAIN customCategories : \E kw \in LoweredKeywords(c) : PhraseMatch(n, kw)}

\* The custom categories with a keyword equal to a word of the name.
WordCats ==
  LET n == Normalized(itemName)
  IN  {c \in DOMAIN customCategories : \E kw \in LoweredKeywords(c) : WordMatch(n, kw)}

AnyCats ==
  ExactCats \cup PhraseCats \cup WordCats

CustomKeySet ==
  {customCategories[c].key : c \in DOMAIN customCategories}

BuiltInKeySet ==
  {"produce", "dairy", "meat", "bakery", "frozen", "pantry", "beverages",
   "snacks", "condiments", "household", "personal_care", "other"}

\* The category KEYWORD_MAP declares for one of its keywords.
DeclaredCategory(kw) ==
  KEYWORD_MAP[CHOOSE i \in DOMAIN KEYWORD_MAP : KEYWORD_MAP[i].kw = kw].cat

\* The built-in multi-word keywords n contains, as indices of the table.
ContainedPhrases(n) ==
  {i \in DOMAIN KEYWORD_MAP :
     Includes(n, KEYWORD_MAP[i].kw) /\ IsMultiWord(KEYWORD_MAP[i].kw)}

\* The positions of the words of n that are built-in keywords.
KeywordWords(n) ==
  LET words == SplitWhiteSpace(n)
  IN  {w \in DOMAIN words : words[w] \in KeywordSet}

BuiltInMatches(n) ==
  n \in KeywordSet \/ ContainedPhrases(n) # {} \/ KeywordWords(n) # {}

CatReturned ==
  catPc = "categorizeItem"

KeysReturned ==
  catPc = "getAllCategoryKeys"

LowerKeywords(custom) ==
  [c \in DOMAIN custom |->
     [key |-> custom[c].key,
      keywords |-> [k \in DOMAIN custom[c].keywords |->
                      ToLowerCase(custom[c].keywords[k])]]]

(***************************************************************************)
(* Categorizer: C1 - C6                                                    *)
(***************************************************************************)

\* C1: whenever some custom category has a keyword that matches the name
\* (exactly, as a contained multi-word phrase, or as one of its words),
\* categorizeItem returns the key of a custom category and no built-in key,
\* also when a built-in keyword matches the same name.
C1_CustomOverBuiltIn ==
  (CatReturned /\ AnyCats # {}) =>
    (catResult \in CustomKeySet /\ catResult \notin BuiltInKeySet)

\* C1 witness: a name that a custom keyword and a built-in keyword both
\* match was given the custom key.
C1_Witness ==
  /\ CatReturned
  /\ AnyCats # {}
  /\ BuiltInMatches(Normalized(itemName))
  /\ catResult \in CustomKeySet

\* C2 as stated: the kind of match ranks across all custom categories. An
\* exact match in any category wins over a phrase or word match in an
\* earlier one, and a phrase match wins over a word match in an earlier one.
C2_KindOrderAcrossCategories ==
  CatReturned =>
    /\ ExactCats # {} => catResult = customCategories[Least(ExactCats)].key
    /\ (ExactCats = {} /\ PhraseCats # {}) =>
         catResult = customCategories[Least(PhraseCats)].key

\* C2 amended: custom matching is by category first. categorizeItem returns
\* the key of the first custom category, in the order supplied, that has any
\* keyword matching the name (exactly, as a contained phrase or as one of
\* its words); the kind of match decides nothing across categories.
C2_FirstMatchingCategory ==
  (CatReturned /\ AnyCats # {}) =>
    catResult = customCategories[Least(AnyCats)].key

\* C2 witness: a later category has the name as an exact keyword, an earlier
\* one matches it by a single word only, and the earlier key was returned.
C2_Witness ==
  /\ CatReturned
  /\ ExactCats # {}
  /\ Least(AnyCats) < Least(ExactCats)
  /\ Least(AnyCats) \notin PhraseCats
  /\ catResult = customCategories[Least(AnyCats)].key

\* C3 as stated: with no custom match the built-in rules apply in the order
\* exact keyword, then contained multi-word phrase (the one declared first
\* in the table), then single word (the leftmost word that is a keyword).
C3_BuiltInOrder ==
  (CatReturned /\ AnyCats = {}) =>
    LET n == Normalized(itemName)
        words == SplitWhiteSpace(n)
    IN  /\ n \in KeywordSet => catResult = DeclaredCategory(n)
        /\ (n \notin KeywordSet /\ ContainedPhrases(n) # {}) =>
             catResult = KEYWORD_MAP[Least(ContainedPhrases(n))].cat
        /\ (n \notin KeywordSet /\ ContainedPhrases(n) = {} /\ KeywordWords(n) # {}) =>
             catResult = DeclaredCategory(words[Least(KeywordWords(n))])

BreadSpellings ==
  {<<"b","r","e","a","d">>,
   <<"B","r","e","a","d">>,
   <<" ","B","R","E","A","D"," ">>}

\* C4: categorizeItem does not depend on the letter case or the surrounding
\* white space of the name, nor on the letter case of the custom keywords:
\* the result for a name is the result for its lowercased, trimmed form, and
\* the result with lowercased keywords; "bread", "Bread" and " BREAD " are
\* all "bakery".
C4_CaseAndPaddingInsensitive ==
  CatReturned =>
    /\ catResult = categorizeItem(Normalized(itemName), customCategories)
    /\ catResult = categorizeItem(itemName, LowerKeywords(customCategories))
    /\ (customCategories = <<>> /\ itemName \in BreadSpellings) => catResult = "bakery"

\* C4 witness: a padded name in capitals matched a capitalized custom
\* keyword.
C4_Witness ==
  /\ CatReturned
  /\ itemName # Normalized(itemName)
  /\ Len(itemName) > Len(Normalized(itemName))
  /\ customCategories # LowerKeywords(customCategories)
  /\ catResult \in CustomKeySet

\* C5 as stated: the result is always a category key, the key of a supplied
\* custom category or one of the 12 built-in keys, and it is "other" when no
\* custom keyword and no built-in keyword matches the name.
C5_ResultIsCategoryKey ==
  CatReturned =>
    /\ catResult \in CustomKeySet \cup BuiltInKeySet
    /\ (AnyCats = {} /\ ~BuiltInMatches(Normalized(itemName))) =>
         catResult = "other"

\* C6: getAllCategoryKeys returns the 11 built-in keys other than "other" in
\* declaration order, then every custom key in the order supplied, then
\* "other"; its length is 12 plus the number of custom categories.
C6_MergedKeyOrder ==
  KeysReturned =>
    /\ keyOrder =
         <<"produce", "dairy", "meat", "bakery", "frozen", "pantry", "beverages",
           "snacks", "condiments", "household", "personal_care">>
         \o [c \in DOMAIN customCategories |-> customCategories[c].key]
         \o <<"other">>
    /\ Len(keyOrder) = 12 + Len(customCategories)

\* C6 witness: two or more custom keys were spliced in before "other".
C6_Witness ==
  /\ KeysReturned
  /\ Len(customCategories) >= 2
  /\ keyOrder[12] = customCategories[1].key
  /\ keyOrder[Len(keyOrder)] = "other"

(***************************************************************************)
(* Suggestion engine: C7 - C10                                             *)
(***************************************************************************)

SugReturned ==
  sugPc = "getSuggestions"

\* The maxSuggestions in force: 8 when the argument is omitted.
Requested ==
  IF maxSuggestions.omitted THEN 8 ELSE maxSuggestions.value

SuggestedKeys ==
  {ToLowerCase(suggestions[i].name) : i \in DOMAIN suggestions}

HistoryCount(key) ==
  Cardinality({h \in DOMAIN history : ToLowerCase(history[h].name) = key})

\* C7: no suggestion has a name that equals, ignoring case, the name of an
\* item of currentItems.
C7_NotAlreadyInList ==
  SugReturned =>
    \A i \in DOMAIN suggestions : \A j \in DOMAIN currentItems :
      ToLowerCase(suggestions[i].name) # ToLowerCase(currentItems[j].name)

\* C7 witness: a name bought twice and still recent is in the current list
\* under another spelling, and something else is suggested.
C7_Witness ==
  /\ SugReturned
  /\ suggestions # <<>>
  /\ \E j \in DOMAIN currentItems :
       /\ HistoryCount(ToLowerCase(currentItems[j].name)) >= 2
       /\ \E h \in DOMAIN history :
            /\ history[h].name # currentItems[j].name
            /\ ToLowerCase(history[h].name) = ToLowerCase(currentItems[j].name)

\* C8: no two suggestions of one result have names equal ignoring case.
C8_NoDuplicateNames ==
  SugReturned =>
    \A i \in DOMAIN suggestions : \A j \in DOMAIN suggestions :
      i # j => ToLowerCase(suggestions[i].name) # ToLowerCase(suggestions[j].name)

\* C8 witness: a suggested name occurs in the history in two spellings that
\* differ only in case, twice or more, so that frequency and recency both
\* produce it.
C8_Witness ==
  /\ SugReturned
  /\ \E g \in DOMAIN history : \E h \in DOMAIN history :
       /\ history[g].name # history[h].name
       /\ ToLowerCase(history[g].name) = ToLowerCase(history[h].name)
       /\ ToLowerCase(history[g].name) \in SuggestedKeys

\* C9 as stated: for every requested integer maxSuggestions the result has
\* at most maxSuggestions suggestions (8 when omitted).
C9_AtMostMaxSuggestions ==
  SugReturned => Len(suggestions) <= Requested

\* C9 amended: for every requested maxSuggestions that is not negative (8
\* when omitted) the result has at most maxSuggestions suggestions; a
\* negative maxSuggestions drops suggestions from the end instead.
C9_AtMostMaxWhenNotNegative ==
  (SugReturned /\ Requested >= 0) => Len(suggestions) <= Requested

\* C9 witness: ten pairings apply to the current list and the default limit
\* cut the result to 8.
C9_Witness ==
  /\ SugReturned
  /\ maxSuggestions.omitted
  /\ Len(getPairingSuggestions(currentItems)) > 8
  /\ Len(suggestions) = 8

SourceRank(reason) ==
  CASE reason.text = "Often bought together" -> 1
    [] reason.text = "Purchased N times before" -> 2
    [] reason.text = "Recently purchased" -> 3

\* What the pairing source produces, as lowercased names.
PairingProduced ==
  LET produced == getPairingSuggestions(currentItems)
  IN  {ToLowerCase(produced[i]) : i \in DOMAIN produced}

\* What the frequency source produces (its names are lowercased).
FrequencyProduced ==
  LET produced == FrequencyCandidates(history)
  IN  {produced[i][1] : i \in DOMAIN produced}

\* The reason of the highest-priority source that produces the name, given
\* what the pairing and the frequency sources produce.
ReasonDue(name, paired, frequent) ==
  IF ToLowerCase(name) \in paired
    THEN [text |-> "Often bought together", count |-> 0]
  ELSE IF ToLowerCase(name) \in frequent
    THEN [text |-> "Purchased N times before", count |-> HistoryCount(ToLowerCase(name))]
  ELSE [text |-> "Recently purchased", count |-> 0]

\* The result with nothing cut off.
Untruncated ==
  getSuggestions(history, currentItems,
                 [omitted |-> FALSE, value |-> 2 * Len(ITEM_PAIRINGS) + 2 * Len(history)])

\* Source priority order, truncation of a suffix only, and the reason of the
\* highest-priority source.
SourcePriorityOrder ==
  LET whole == Untruncated
      paired == PairingProduced
      frequent == FrequencyProduced
  IN  /\ \A i \in DOMAIN suggestions : \A j \in DOMAIN suggestions :
           i < j => SourceRank(suggestions[i].reason) <= SourceRank(suggestions[j].reason)
      /\ Len(suggestions) <= Len(whole)
      /\ suggestions = SubSeq(whole, 1, Len(suggestions))
      /\ \A i \in DOMAIN suggestions :
           suggestions[i].reason = ReasonDue(suggestions[i].name, paired, frequent)

BreadWithoutButter ==
  /\ \E j \in DOMAIN currentItems :
       ToLowerCase(currentItems[j].name) = <<"b","r","e","a","d">>
  /\ \A j \in DOMAIN currentItems :
       ToLowerCase(currentItems[j].name) # <<"b","u","t","t","e","r">>

\* "butter", as often bought together, is in the result ahead of every
\* frequency and recency suggestion.
ButterAhead ==
  \E i \in DOMAIN suggestions :
    /\ suggestions[i].name = <<"b","u","t","t","e","r">>
    /\ suggestions[i].reason.text = "Often bought together"
    /\ \A j \in DOMAIN suggestions :
         SourceRank(suggestions[j].reason) > 1 => i < j

\* C10 as stated: the result is in source priority order (pairing, then
\* frequency, then recency), truncation removes only a suffix, a name of
\* several sources carries the reason of the highest, and with "bread" among
\* the current items and "butter" not, "butter" is in the result as often
\* bought together, ahead of every frequency and recency suggestion.
C10_PriorityOrderAndButter ==
  SugReturned => (SourcePriorityOrder /\ (BreadWithoutButter => ButterAhead))

\* C10 amended: as stated, the part about "butter" for a maxSuggestions of
\* at least 1 (8 when omitted): with a maxSuggestions of 0 or less the
\* result may be empty.
C10_PriorityOrderAndButterWhenAsked ==
  SugReturned =>
    /\ SourcePriorityOrder
    /\ (BreadWithoutButter /\ Requested >= 1) => ButterAhead

\* C10 witness: with "bread" in the list, "butter" leads a result that holds
\* a frequency and a recency suggestion after it.
C10_Witness ==
  /\ SugReturned
  /\ BreadWithoutButter
  /\ suggestions # <<>>
  /\ suggestions[1].name = <<"b","u","t","t","e","r">>
  /\ \E i \in DOMAIN suggestions : SourceRank(suggestions[i].reason) = 2
  /\ \E i \in DOMAIN suggestions : SourceRank(suggestions[i].reason) = 3

(***************************************************************************)
(* Suggestion engine: C11 - C13                                            *)
(***************************************************************************)

\* The names of the current items, ignoring case.
CurrentKeys ==
  {ToLowerCase(currentItems[j].name) : j \in DOMAIN currentItems}

\* Every pair of the table, read in both directions, as <<present, partner>>.
DirectedPairings ==
  {<<ITEM_PAIRINGS[p][1], ITEM_PAIRINGS[p][2]>> : p \in DOMAIN ITEM_PAIRINGS}
    \cup {<<ITEM_PAIRINGS[p][2], ITEM_PAIRINGS[p][1]>> : p \in DOMAIN ITEM_PAIRINGS}

\* The pairs whose first name is in the current list and whose partner is not.
PartnerMissing ==
  {d \in DirectedPairings :
     /\ ToLowerCase(d[1]) \in CurrentKeys
     /\ ToLowerCase(d[2]) \notin CurrentKeys}

IsPairingOf(result, name) ==
  \E i \in DOMAIN result :
    /\ result[i].name = name
    /\ result[i].reason.text = "Often bought together"

\* A name has the pairing reason only if its partner is in the current list.
PairingOnlyWithPartner ==
  \A i \in DOMAIN suggestions :
    suggestions[i].reason.text = "Often bought together" =>
      \E d \in DirectedPairings :
        /\ d[2] = suggestions[i].name
        /\ ToLowerCase(d[1]) \in CurrentKeys

\* C11 as stated: for every pair (a, b) of the table, with a among the
\* current items ignoring case and b not, b is in the result as often bought
\* together, and the same with a and b exchanged; a name is in the result as
\* often bought together only if its partner is among the current items.
C11_PairingBothDirections ==
  SugReturned =>
    /\ \A d \in PartnerMissing : IsPairingOf(suggestions, d[2])
    /\ PairingOnlyWithPartner

\* C11 amended: as stated, except that the partner is a suggestion before
\* the result is cut to maxSuggestions: it is in the result unless the cut
\* removed it, and then the result holds pairing suggestions only.
C11_PairingBothDirectionsBeforeCut ==
  SugReturned =>
    LET whole == Untruncated
    IN  /\ \A d \in PartnerMissing :
             /\ IsPairingOf(whole, d[2])
             /\ \/ IsPairingOf(suggestions, d[2])
                \/ /\ Len(suggestions) < Len(whole)
                   /\ \A i \in DOMAIN suggestions :
                        suggestions[i].reason.text = "Often bought together"
        /\ PairingOnlyWithPartner

\* C11 witness: "butter" is in the list and "bread" is not, "tortillas" is
\* in the list and "cheese" is not, and both partners are in the result: one
\* pair read backwards, one forwards.
C11_Witness ==
  /\ SugReturned
  /\ <<"b","u","t","t","e","r">> \in CurrentKeys
  /\ <<"b","r","e","a","d">> \notin CurrentKeys
  /\ <<"t","o","r","t","i","l","l","a","s">> \in CurrentKeys
  /\ IsPairingOf(suggestions, <<"b","r","e","a","d">>)
  /\ IsPairingOf(suggestions, <<"c","h","e","e","s","e">>)

\* The distinct lowercased names of the history.
HistoryKeys ==
  {ToLowerCase(history[h].name) : h \in DOMAIN history}

FirstOccurrence(key) ==
  Least({h \in DOMAIN history : ToLowerCase(history[h].name) = key})

LastOccurrence(key) ==
  Len(history) + 1
    - Least({Len(history) + 1 - h : h \in {g \in DOMAIN history : ToLowerCase(history[g].name) = key}})

\* The frequency suggestions of the result, as indices.
FrequencySuggestions ==
  {i \in DOMAIN suggestions : suggestions[i].reason.text = "Purchased N times before"}

\* The recency suggestions of the result, as indices.
RecencySuggestions ==
  {i \in DOMAIN suggestions : suggestions[i].reason.text = "Recently purchased"}

\* C12: a name is in the result as purchased N times before only if N is at
\* least 2, N is the number of history entries with that lowercased name, and
\* the name is among the 20 distinct lowercased history names of the highest
\* counts (earlier first occurrence first among equal counts), whatever the
\* current list holds; the frequency suggestions are in descending N, and in
\* order of first occurrence in the history where N is equal.
C12_FrequencyRule ==
  SugReturned =>
    LET keys == HistoryKeys
        count == [k \in keys |-> HistoryCount(k)]
        first == [k \in keys |-> FirstOccurrence(k)]
        ahead(k) == {o \in keys : \/ count[o] > count[k]
                                  \/ count[o] = count[k] /\ first[o] < first[k]}
    IN  /\ \A i \in FrequencySuggestions :
             /\ suggestions[i].name \in keys
             /\ suggestions[i].reason.count >= 2
             /\ suggestions[i].reason.count = count[suggestions[i].name]
             /\ Cardinality(ahead(suggestions[i].name)) < 20
        /\ \A i \in FrequencySuggestions : \A j \in FrequencySuggestions :
             i < j =>
               \/ suggestions[i].reason.count > suggestions[j].reason.count
               \/ /\ suggestions[i].reason.count = suggestions[j].reason.count
                  /\ first[suggestions[i].name] < first[suggestions[j].name]

\* C12 witness: more than 20 names were bought twice, the first of them is
\* in the current list, and the result holds the 19 others of the first 20
\* as frequency suggestions and a later one as recently purchased.
C12_Witness ==
  /\ SugReturned
  /\ Cardinality({k \in HistoryKeys : HistoryCount(k) >= 2}) > 20
  /\ currentItems # <<>>
  /\ ToLowerCase(currentItems[1].name) \in HistoryKeys
  /\ Cardinality(FrequencySuggestions) = 19
  /\ \E i \in RecencySuggestions : HistoryCount(ToLowerCase(suggestions[i].name)) >= 2

\* C13: a name is in the result as recently purchased only if it occurs
\* among the last 30 entries of the history, so a name whose occurrences are
\* all older is never a recency suggestion; the recency suggestions are in
\* order of their most recent occurrence, the latest first.
C13_RecencyRule ==
  SugReturned =>
    /\ \A i \in RecencySuggestions :
         \E h \in DOMAIN history :
           /\ h > Len(history) - 30
           /\ history[h].name = suggestions[i].name
    /\ \A i \in RecencySuggestions : \A j \in RecencySuggestions :
         i < j => LastOccurrence(ToLowerCase(suggestions[i].name))
                    > LastOccurrence(ToLowerCase(suggestions[j].name))

\* C13 witness: the history has more than 30 entries, a name bought once
\* before the last 30 is not in the result, and two names bought once within
\* the last 30 are, as recently purchased.
C13_Witness ==
  /\ SugReturned
  /\ Len(history) > 30
  /\ \E k \in HistoryKeys :
       /\ LastOccurrence(k) <= Len(history) - 30
       /\ k \notin CurrentKeys
       /\ k \notin SuggestedKeys
  /\ Cardinality(RecencySuggestions) >= 2

(***************************************************************************)
(* Recipe parser: C14 - C19                                                *)
(***************************************************************************)

RecParsed ==
  recPc = "parseRecipeText"

RecFromTemplate ==
  recPc = "recipeTemplateToItems"

RecipeNames ==
  [k \in DOMAIN recipeItems |-> recipeItems[k].name]

\* What follows the quantity, the unit and the "of" of a line of the form
\* '<quantity> <unit> [of] <name>'.
NameAfterUnit(line) ==
  SubSeq(line, UNIT_PATTERN(line) + 1, Len(line))

\* C14: for every ingredient line of the form '<quantity> <unit> [of]
\* <name>' with the unit in the unit vocabulary the result holds an item
\* named <name> capitalized, quantity and unit removed; and the text
\* "2 cups flour\n1/2 lb ground beef, minced\n- 3 cloves garlic" yields the
\* names "Flour", "Ground beef", "Garlic" in that order.
C14_QuantityAndUnitRemoved ==
  RecParsed =>
    LET lines == IngredientLines(recipeText)
    IN  /\ \A l \in DOMAIN lines :
             (/\ UNIT_PATTERN(lines[l]) > 0
              /\ Len(NameAfterUnit(lines[l])) >= 2
              /\ \A c \in DOMAIN lines[l] : lines[l][c] \notin {"(", ")", ","})
               => \E k \in DOMAIN recipeItems :
                    /\ ToLowerCase(RecipeNames[k]) = ToLowerCase(NameAfterUnit(lines[l]))
                    /\ RecipeNames[k][1] = UpperChar(RecipeNames[k][1])
        /\ recipeText = ExampleRecipe =>
             RecipeNames = << <<"F","l","o","u","r">>,
                              <<"G","r","o","u","n","d"," ","b","e","e","f">>,
                              <<"G","a","r","l","i","c">> >>

\* A leading unit word removed, with the white space after it and an "of":
\* what UNIT_PATTERN removes after a quantity.
WithoutLeadingUnit(s) ==
  LET quantified == <<"1", " ">> \o s
  IN  IF UNIT_PATTERN(quantified) = 0 THEN s
      ELSE SubSeq(quantified, UNIT_PATTERN(quantified) + 1, Len(quantified))

\* The line without parentheticals, the text from the first comma, the
\* leading quantity and the leading unit.
FullyCleaned(line) ==
  Trim(WithoutLeadingUnit(Trim(RemoveLeadingQuantity(
         Trim(RemoveFromComma(RemoveParentheticals(line)))))))

\* The original line without its leading quantity run.
Fallback(line) ==
  Trim(RemoveLeadingQuantity(line))

\* C15: when removing the parentheticals, the text from the first comma, the
\* leading quantity and the leading unit leaves nothing, stripQuantity
\* returns the original line without its leading quantity run, and the line
\* is lost only if that is shorter than 2 characters; every item of the
\* result has a name of at least 2 characters.
C15_FallbackKeepsTheLine ==
  RecParsed =>
    LET lines == IngredientLines(recipeText)
    IN  /\ \A l \in DOMAIN lines :
             FullyCleaned(lines[l]) = <<>> =>
               /\ stripQuantity(lines[l]) = Fallback(lines[l])
               /\ Len(Fallback(lines[l])) >= 2 =>
                    \E k \in DOMAIN recipeItems :
                      ToLowerCase(RecipeNames[k]) = ToLowerCase(Fallback(lines[l]))
        /\ \A k \in DOMAIN recipeItems : Len(RecipeNames[k]) >= 2

\* C15 witness: of two lines that clean to nothing, "(optional)" is in the
\* result under its fallback and "3 ," is lost, its fallback being ",".
C15_Witness ==
  /\ RecParsed
  /\ Len(recipeItems) = 1
  /\ LET lines == IngredientLines(recipeText)
     IN  /\ Len(lines) = 2
         /\ \A l \in DOMAIN lines : FullyCleaned(lines[l]) = <<>>
         /\ \E l \in DOMAIN lines :
              /\ Len(Fallback(lines[l])) >= 2
              /\ RecipeNames[1] = CapitalizeFirst(Fallback(lines[l]))
         /\ \E l \in DOMAIN lines : Len(Fallback(lines[l])) = 1

\* The text without its section header lines.
WithoutHeaderLines(text) ==
  JoinLines(SelectSeq(SplitLines(text, 1, <<>>),
                      LAMBDA raw : ~IsSectionHeader(WithoutBullet(raw))))

HeaderLines(text) ==
  {l \in DOMAIN SplitLines(text, 1, <<>>) :
     IsSectionHeader(WithoutBullet(SplitLines(text, 1, <<>>)[l]))}

\* C16: a line that, without bullet and trimmed, starts with instructions,
\* directions, steps or method in any case gives no item, and the other
\* lines, those after it too, give what they give without it: the result is
\* the result of the text with the header lines taken out.
C16_HeaderLineOnlyIsSkipped ==
  RecParsed =>
    recipeItems = parseRecipeText(WithoutHeaderLines(recipeText),
                                  uuidCount - Len(recipeItems))

\* C16 witness: the first line is a section header and the line after it
\* gave an item.
C16_Witness ==
  /\ RecParsed
  /\ 1 \in HeaderLines(recipeText)
  /\ recipeItems # <<>>

\* C17: no two items of the result have names equal ignoring case, the
\* first line of a name is the one kept, and the items are in the order of
\* their lines.
C17_FirstOfEachNameInLineOrder ==
  RecParsed =>
    LET lines == IngredientLines(recipeText)
        names == [l \in DOMAIN lines |-> stripQuantity(lines[l])]
        kept == {l \in DOMAIN lines :
                   /\ Len(names[l]) >= 2
                   /\ \A e \in 1..(l - 1) : ToLowerCase(names[e]) # ToLowerCase(names[l])}
    IN  /\ \A i \in DOMAIN recipeItems : \A j \in DOMAIN recipeItems :
             i # j => ToLowerCase(RecipeNames[i]) # ToLowerCase(RecipeNames[j])
        /\ Len(recipeItems) = Cardinality(kept)
        /\ \A k \in DOMAIN recipeItems :
             \E l \in kept :
               /\ Cardinality({e \in kept : e < l}) = k - 1
               /\ RecipeNames[k] = CapitalizeFirst(names[l])

\* C17 witness: two lines name the same thing in different case and the
\* one item of the result has the spelling of the first.
C17_Witness ==
  /\ RecParsed
  /\ Len(recipeItems) = 1
  /\ LET lines == IngredientLines(recipeText)
     IN  /\ Len(lines) = 2
         /\ lines[1] # lines[2]
         /\ CapitalizeFirst(lines[1]) # CapitalizeFirst(lines[2])
         /\ ToLowerCase(lines[1]) = ToLowerCase(lines[2])
         /\ RecipeNames[1] = CapitalizeFirst(lines[1])

\* C18: every item of parseRecipeText and of recipeTemplateToItems is
\* unchecked, has the category categorizeItem gives its name without custom
\* categories, and has an identifier that is not empty and differs from
\* every other identifier of the call and of every earlier call.
C18_ItemsUncheckedCategorizedDistinct ==
  (RecParsed \/ RecFromTemplate) =>
    \A k \in DOMAIN recipeItems :
      /\ recipeItems[k].isChecked = FALSE
      /\ recipeItems[k].category = categorizeItem(recipeItems[k].name, <<>>)
      /\ recipeItems[k].id # <<>>
      /\ recipeItems[k].id \notin earlierIds
      /\ \A j \in DOMAIN recipeItems : j # k => recipeItems[j].id # recipeItems[k].id

\* C18 witness: a second call returned two items or more after a first call
\* that had returned some.
C18_Witness ==
  /\ RecParsed \/ RecFromTemplate
  /\ earlierIds # {}
  /\ Len(recipeItems) >= 2
  /\ \E k \in DOMAIN recipeItems : recipeItems[k].category # CATEGORIES_OTHER

\* C19: recipeTemplateToItems returns one item for each ingredient of the
\* template, in order, the i-th named as the i-th ingredient capitalized,
\* also when an ingredient is repeated.
C19_OneItemPerIngredient ==
  RecFromTemplate =>
    /\ Len(recipeItems) = Len(template.ingredients)
    /\ \A i \in DOMAIN recipeItems :
         RecipeNames[i] = CapitalizeFirst(template.ingredients[i])

\* C19 witness: a template names one ingredient twice, in two spellings,
\* and the result has both.
C19_Witness ==
  /\ RecFromTemplate
  /\ Len(template.ingredients) = 2
  /\ template.ingredients[1] # template.ingredients[2]
  /\ ToLowerCase(template.ingredients[1]) = ToLowerCase(template.ingredients[2])
  /\ Len(recipeItems) = 2

(***************************************************************************)
(* Store: C20                                                              *)
(***************************************************************************)

\* The identifiers of the items of all lists.
StoredItemIds(st) ==
  UNION {{st.lists[l].items[i].id : i \in DOMAIN st.lists[l].items} : l \in DOMAIN st.lists}

\* The names of the items of list l of st that are not among the known
\* identifiers, in list order.
NewNamesIn(st, l, known) ==
  LET new == SelectSeq(st.lists[l].items, LAMBDA item : item.id \notin known)
  IN  [i \in DOMAIN new |-> new[i].name]

\* The names of the items of st that are not among the known identifiers,
\* list by list.
RECURSIVE NewNamesFrom(_, _, _)
NewNamesFrom(st, l, known) ==
  IF l > Len(st.lists) THEN <<>>
  ELSE NewNamesIn(st, l, known) \o NewNamesFrom(st, l + 1, known)

\* The names of the history entries a step appends.
AppendedNames ==
  [i \in 1..(Len(state'.history) - Len(state.history)) |->
     state'.history[Len(state.history) + i].name]

\* C20: one history entry is appended for each item added to a list: every
\* step of addItem or addItems appends as many entries as it adds items, the
\* entries carrying the names the items are stored under (trimmed and
\* capitalized), so none is appended by a call that adds no item (a list id
\* that matches no list) and no added item is without its entry.
C20_OneHistoryEntryPerItemAdded ==
  [][AppendedNames = NewNamesFrom(state', 1, StoredItemIds(state))]_vars

(***************************************************************************)
(* Stores and aisles (C21)                                                 *)
(***************************************************************************)

\* The aisle of the item document is one of its store: the store is assigned,
\* its document exists, and the aisle is in its aisle list.
AisleOfItsStore(item) ==
  /\ item.store # Null
  /\ item.store \in DocIds(db.stores)
  /\ \E a \in DOMAIN StoreAisles(db.stores, item.store) :
       StoreAisles(db.stores, item.store)[a] = item.aisle

\* C21: in every reachable state of the store-aware application an item whose
\* aisle is not null has a store assigned, and the aisle is in the aisle list
\* of that store: not between the two writes of a store reassignment, and
\* not after the aisles of a store were edited or the store was deleted.
C21_AisleBelongsToAssignedStore ==
  \A i \in DOMAIN db.items :
    db.items[i].aisle # Null => AisleOfItsStore(db.items[i])

(***************************************************************************)
(* C22: category keys are unique                                           *)
(***************************************************************************)

\* The keys of the custom category documents.
StoredCustomKeys ==
  [c \in DOMAIN db.customCategories |-> db.customCategories[c].key]

\* C22: after any sequence of addCustomCategory calls no custom category's
\* key is a built-in key and no two custom categories have the same key,
\* also when two categories are created in the same millisecond.
C22_CategoryKeysUnique ==
  /\ \A c \in DOMAIN StoredCustomKeys : StoredCustomKeys[c] \notin BuiltInKeySet
  /\ \A c, d \in DOMAIN StoredCustomKeys :
       c # d => StoredCustomKeys[c] # StoredCustomKeys[d]

(***************************************************************************)
(* C23: names are stored trimmed and capitalized                           *)
(***************************************************************************)

\* The Firestore provider mounted for a user with one list and one store
\* that has an aisle, after the first snapshots of the lists and the stores.
FireShopInit ==
  /\ StoreIdle
  /\ CatIdle
  /\ SugIdle
  /\ recPc = "idle"
  /\ recipeText = <<>>
  /\ template = NoTemplate
  /\ recipeItems = <<>>
  /\ uuidCount = 2
  /\ earlierIds = {}
  /\ recCalls = 0
  /\ provider = "firestore"
  /\ \E name \in ListNames : \E aisle \in AisleNames :
       db = updateStore(createStore(fsCreateList(emptyDb, autoId(1), name),
                                    autoId(2), [aisles |-> <<>>, order |-> 0]),
                        autoId(2), [aisles |-> <<aisle>>])
  /\ view = [OnLists([initialView EXCEPT !.userId = UserId], db.lists)
               EXCEPT !.stores = OrderedByOrder(db.stores)]
  /\ tasks = <<>>
  /\ clock = 1

\* Either application, with every action on items.
AppInit ==
  \/ StoreInit
  \/ FireShopInit

AppNext ==
  \/ LocalNext
  \/ FireItemsNext
  \/ handleSelectCategory
  \/ handleSelectStore
  \/ handleSelectStore_Aisle
  \/ handleSelectAisle

SpecApp ==
  AppInit /\ [][AppNext]_vars

\* The name is trimmed and its first character is in upper case.
IsCapitalized(name) ==
  /\ name = Trim(name)
  /\ name # <<>> => name[1] = UpperChar(name[1])

\* The names of the items of every list and of the entries of the history,
\* of the store in memory and of the documents.
StoredNames ==
  UNION {{state.lists[l].items[i].name : i \in DOMAIN state.lists[l].items} :
           l \in DOMAIN state.lists}
    \cup {state.history[h].name : h \in DOMAIN state.history}
    \cup {db.items[i].name : i \in DOMAIN db.items}
    \cup {db.history[h].name : h \in DOMAIN db.history}

\* C23: after any sequence of addItem, addItems, toggleItem, updateItem
\* (category, store or aisle), removeItem and clearChecked, the name of every
\* item of every list and of every history entry is trimmed and begins with
\* an upper-case character.
C23_NamesCapitalized ==
  \A name \in StoredNames : IsCapitalized(name)

\* An item typed " milk" is stored as "Milk", it has been checked and
\* assigned to a store and an aisle, and the history has its name.
C23_Witness ==
  /\ \E i \in DOMAIN db.items :
       /\ db.items[i].name = <<"M","i","l","k">>
       /\ db.items[i].isChecked
       /\ db.items[i].store # Null
       /\ db.items[i].aisle # Null
  /\ \E h \in DOMAIN db.history : db.history[h].name = <<"M","i","l","k">>

(***************************************************************************)
(* C24: toggleItem flips isChecked                                         *)
(***************************************************************************)

\* This step is a call of toggleItemAction that has written to the item.
ToggleItemCalled ==
  /\ Len(tasks') = Len(tasks) + 1
  /\ tasks'[Len(tasks')].op = "toggleItem"

\* The item documents differ in the isChecked of one document, negated.
OneItemFlipped ==
  \E i \in DOMAIN db.items :
    db'.items = [db.items EXCEPT ![i].isChecked = ~db.items[i].isChecked]

\* C24: a toggleItem call on an existing item stores the negation of the
\* isChecked stored immediately before the call and changes no other item,
\* also when it is issued before the view has received the update of an
\* earlier toggle.
C24_ToggleFlipsStoredValue ==
  [][ToggleItemCalled => OneItemFlipped]_vars

(***************************************************************************)
(* C25: itemCount is the number of unchecked items                         *)
(***************************************************************************)

\* The number of item documents of the list that are not checked.
UncheckedCount(listId) ==
  Cardinality({i \in DOMAIN db.items :
                 db.items[i].listId = listId /\ ~db.items[i].isChecked})

\* C25: whenever no action on a list is in flight, the itemCount of the list
\* is the number of its unchecked items, so it is never negative, after any
\* sequence of addItem, addItems, toggleItem, removeItem and clearChecked.
C25_ItemCountIsUncheckedCount ==
  tasks = <<>> =>
    \A l \in DOMAIN db.lists :
      db.lists[l].itemCount = UncheckedCount(db.lists[l].id)

(***************************************************************************)
(* C26: the lists in storage are the lists in memory                       *)
(***************************************************************************)

\* C26: after any sequence of list and item actions of the local provider,
\* once the persistence effects have run, the lists localStorage holds are
\* the lists of the state, so a reload restores the current lists, also
\* after the last list has been deleted.
C26_StorageHoldsCurrentLists ==
  provider = "local" => loadLists(storage) = state.lists

(***************************************************************************)
(* C27: the history holds the last 200 entries                             *)
(***************************************************************************)

\* The name the history holds for the k-th ADD_HISTORY.
EntryName(k) ==
  capitalize(Trim(TypedEntry(k)))

\* The number of entries kept of n appended.
Kept(n) ==
  IF n < 200 THEN n ELSE 200

\* C27: after n ADD_HISTORY actions the history holds min(n, 200) entries,
\* the last ones appended, in the order they were appended.
C27_HistoryIsLast200 ==
  /\ Len(state.history) = Kept(appended)
  /\ \A j \in 1..Kept(appended) :
       state.history[j].name = EntryName(appended - Kept(appended) + j)

\* More than 200 entries have been appended: the first three are gone, the
\* history begins with the fourth and ends with the last.
C27_Witness ==
  /\ appended = 203
  /\ Len(state.history) = 200
  /\ state.history[1].name = <<"E","n","t","r","y"," ","0","0","4">>
  /\ state.history[200].name = <<"E","n","t","r","y"," ","2","0","3">>

(***************************************************************************)
(* C28: the active list is one of the lists                                *)
(***************************************************************************)

\* The selection is no list, or a list among the lists; it is no list only
\* when there is none.
ValidSelection(activeListId, lists) ==
  /\ activeListId = Null \/ activeListId \in DocIds(lists)
  /\ activeListId = Null => lists = <<>>

\* C28: in every reachable state of either provider activeListId is null or
\* the id of a list present in lists, and null only when there are no lists.
C28_ActiveListIsValid ==
  /\ ValidSelection(state.activeListId, state.lists)
  /\ ValidSelection(view.activeListId, view.lists)

(***************************************************************************)
(* C29: deleteList deletes the items of the list                           *)
(***************************************************************************)

\* C29: once deleteList has completed and no other action is in flight, no
\* item document remains under a list that has been deleted, also when an
\* addItem or addItems on the list ran between deleteList's read of the
\* items and the commit of its batch.
C29_NoItemOfADeletedList ==
  tasks = <<>> =>
    \A i \in DOMAIN db.items : db.items[i].listId \in DocIds(db.lists)

(***************************************************************************)
(* C30: the order values of the custom categories                          *)
(***************************************************************************)

\* This step is a call of addCustomCategoryAction.
CategoryCreated ==
  Len(db'.customCategories) = Len(db.customCategories) + 1

\* The category created by this step.
CreatedCategory ==
  db'.customCategories[Len(db'.customCategories)]

\* The order values of the custom category documents are pairwise distinct.
DistinctOrders ==
  \A c, d \in DOMAIN db.customCategories :
    c # d => db.customCategories[c].order # db.customCategories[d].order

\* C30: after any sequence of addCustomCategory, deleteCustomCategory and
\* reorderCustomCategories the order values of the custom categories are
\* pairwise distinct, and a category is created with an order greater than
\* that of every existing category.
C30_OrdersDistinctAndNewLast ==
  [][/\ DistinctOrders'
     /\ CategoryCreated =>
          \A c \in DOMAIN db.customCategories :
            db.customCategories[c].order < CreatedCategory.order]_vars
====
